---- MODULE Spec2Model ----
(***************************************************************************)
(* Model of the QuestionManager of src/script.js: the text-similarity      *)
(* functions (levenshteinDistance, calculateSimilarity,                    *)
(* findSimilarQuestionsForQuestion) and the question collection they read. *)
(*                                                                         *)
(* JavaScript strings are TLA+ strings; the character at 1-based position  *)
(* i of s is SubSeq(s, i, i).  The absent values null and undefined are    *)
(* the two reserved values Null and Undefined, which contain characters    *)
(* that no input string of the model contains.                             *)
(*                                                                         *)
(* A similarity score is held in hundredths: the JavaScript number that    *)
(* calculateSimilarity returns is k / 100 for the integer k that           *)
(* Math.round produced, and the model keeps k (10000 is the score 100).    *)
(***************************************************************************)
EXTENDS Integers, Sequences, FiniteSets, TLC

VARIABLES
    questions,      \* this.questions: sequence of question records
    op,             \* the method of the last call, "none" before any call
    arg1,           \* first argument of the last call
    arg2,           \* second argument of the last call
    ret,            \* value the last call returned
    filteredQuestions,              \* this.filteredQuestions
    categories,                     \* this.categories, in insertion order
    showSimilarQuestions,           \* this.showSimilarQuestions
    selectedQuestionForSimilarity,  \* this.selectedQuestionForSimilarity
    localStorage,   \* the item 'm3aref_questions' of the local storage
    searchInput,    \* the value of the element searchInput
    categoryFilter, \* the value of the select categoryFilter, '' for all
    difficultyFilter,   \* the value of the select difficultyFilter as a
                        \* number, 0 for the option '' (all)
    cards,          \* the cards of questionsContainer: the values of the
                    \* inputs of each card
    reading         \* the file reads under way: [kind, data] for each

vars == <<questions, op, arg1, arg2, ret, filteredQuestions, categories,
          showSimilarQuestions, selectedQuestionForSimilarity, localStorage,
          searchInput, categoryFilter, difficultyFilter, cards, reading>>

\* the state of the manager and of the page apart from this.questions
managerVars == <<filteredQuestions, categories, showSimilarQuestions,
                 selectedQuestionForSimilarity, localStorage, searchInput,
                 categoryFilter, difficultyFilter, cards, reading>>

(***************************************************************************)
(* Bounds of the model.                                                    *)
(***************************************************************************)
MaxLevLen == 3          \* longest enumerated input of levenshteinDistance
MaxTextLen == 3         \* longest enumerated input of calculateSimilarity
MaxQuestions == 2       \* most questions in an enumerated collection
MaxReading == 1         \* most file reads under way at a time

LevAlphabet == {"a", "b"}
SimAlphabet == {"a", "A", " "}

(***************************************************************************)
(* JavaScript values.                                                      *)
(***************************************************************************)
Null == "<null>"
Undefined == "<undefined>"

\* null and undefined where an object is expected
NullObject == [absent |-> "null"]
UndefinedObject == [absent |-> "undefined"]

\* !x for x a string, null or undefined
Falsy(x) == x = Null \/ x = Undefined \/ x = ""

\* s[i - 1] of the source for the 1-based position i
CharAt(s, i) == SubSeq(s, i, i)

\* the fields the constructor sets besides this.questions (script.js 17-22),
\* on a page as index.html has it: an empty search box, both filters at
\* their first option, no card, and with an empty local storage and no file
\* being read
constructorFields ==
    /\ filteredQuestions = <<>>
    /\ categories = <<>>
    /\ showSimilarQuestions = FALSE
    /\ selectedQuestionForSimilarity = NullObject
    /\ localStorage = NullObject
    /\ searchInput = ""
    /\ categoryFilter = ""
    /\ difficultyFilter = 0
    /\ cards = <<>>
    /\ reading = {}

\* all strings over alphabet of length exactly n
RECURSIVE StringsOfLen(_, _)
StringsOfLen(alphabet, n) ==
    IF n = 0 THEN {""}
    ELSE {s \o c : s \in StringsOfLen(alphabet, n - 1), c \in alphabet}

\* all strings over alphabet of length at most n
StringsUpTo(alphabet, n) == UNION {StringsOfLen(alphabet, k) : k \in 0..n}

\* the string made of n copies of c
RECURSIVE Repeat(_, _)
Repeat(c, n) ==
    IF n = 0 THEN ""
    ELSE IF n = 1 THEN c
    ELSE Repeat(c, n \div 2) \o Repeat(c, n - n \div 2)

(***************************************************************************)
(* levenshteinDistance (script.js 49-73).  A row of the matrix is a        *)
(* sequence whose element j + 1 is matrix[i][j].  A loop up to hi runs its  *)
(* first half and then the rest, which is the same iteration order with an *)
(* evaluation depth logarithmic in the length.                             *)
(***************************************************************************)
Min3(x, y, z) ==
    IF x <= y /\ x <= z THEN x ELSE IF y <= z THEN y ELSE z

\* the cost taken as 1 also when the two characters are equal
SubstCost_AlwaysOne(str1, str2, i, j) == 1

\* cost of the substitution at matrix[i][j]
SubstCost(str1, str2, i, j) ==
    IF CharAt(str1, i) = CharAt(str2, j) THEN 0 ELSE 1

\* matrix[0][j] = j
FirstRow(len2) == [k \in 1..(len2 + 1) |-> k - 1]

\* the body of the inner loop without the insertion term
Cell_NoInsertion(str1, str2, i, j, prev, cur) ==
    IF prev[j + 1] + 1 <= prev[j] + SubstCost(str1, str2, i, j)
    THEN prev[j + 1] + 1
    ELSE prev[j] + SubstCost(str1, str2, i, j)

\* the body of the inner loop: matrix[i][j] from row i - 1 (prev) and
\* matrix[i][0..j-1] (cur)
Cell(str1, str2, i, j, prev, cur) ==
    Min3(prev[j + 1] + 1,                           \* deletion
         cur[j] + 1,                                \* insertion
         prev[j] + SubstCost(str1, str2, i, j))     \* substitution

\* the inner loop of row i, from j = Len(cur) up to hi; cur holds
\* matrix[i][0..j-1]
RECURSIVE FillRow(_, _, _, _, _, _)
FillRow(str1, str2, i, prev, cur, hi) ==
    LET j == Len(cur)
    IN  IF j > hi THEN cur
        ELSE IF j = hi THEN Append(cur, Cell(str1, str2, i, j, prev, cur))
        ELSE FillRow(str1, str2, i, prev,
                     FillRow(str1, str2, i, prev, cur, (j + hi) \div 2), hi)

\* the outer loop, from i = Len(matrix) up to hi; matrix holds the rows
\* 0..i-1
RECURSIVE FillMatrix(_, _, _, _)
FillMatrix(str1, str2, matrix, hi) ==
    LET i == Len(matrix)
    IN  IF i > hi THEN matrix
        ELSE IF i = hi
             THEN Append(matrix,
                         FillRow(str1, str2, i, matrix[i], <<i>>, Len(str2)))
        ELSE FillMatrix(str1, str2,
                        FillMatrix(str1, str2, matrix, (i + hi) \div 2), hi)

levenshteinDistance(str1, str2) ==
    LET len1 == Len(str1)
        len2 == Len(str2)
        matrix == FillMatrix(str1, str2, <<FirstRow(len2)>>, len1)
    IN  matrix[len1 + 1][len2 + 1]

(***************************************************************************)
(* JavaScript numbers are IEEE 754 binary64.  A positive number is         *)
(* [sig |-> s, exp |-> e] with s a sequence of 53 bits, most significant   *)
(* first and s[1] = 1, standing for the integer s denotes times 2^e; zero  *)
(* is Binary64Zero.  Every arithmetic result is the exact result rounded   *)
(* to the nearest such number, ties to the even significand.  Bit          *)
(* sequences are worked on in chunks of ChunkBits bits, so that every      *)
(* intermediate integer stays below 2^31.                                  *)
(***************************************************************************)
SigBits == 53

\* width of the chunks; the results are the same for every width up to 15
ChunkBits == 14

Binary64Zero == [sig |-> <<>>, exp |-> 0]

Min2(x, y) == IF x <= y THEN x ELSE y

\* the w low bits of the natural number v, most significant first
FixedBits(v, w) == [k \in 1..w |-> (v \div 2^(w - k)) % 2]

\* the number of bits of the natural number n < 2^31 (0 for 0)
BitLength(n) == CHOOSE w \in 0..31 : n < 2^w /\ (w = 0 \/ n >= 2^(w - 1))

\* the bits of the natural number n, most significant first (<<>> for 0)
NatToBits(n) == FixedBits(n, BitLength(n))

\* the natural number a bit sequence of at most 30 bits denotes
RECURSIVE BitsToNat(_)
BitsToNat(bits) ==
    IF bits = <<>> THEN 0
    ELSE 2 * BitsToNat(SubSeq(bits, 1, Len(bits) - 1)) + bits[Len(bits)]

\* bits + 1, one bit longer when every bit is 1
IncrementBits(bits) ==
    LET zeros == {k \in 1..Len(bits) : bits[k] = 0}
    IN  IF zeros = {} THEN <<1>> \o [k \in 1..Len(bits) |-> 0]
        ELSE LET z == CHOOSE k \in zeros : \A j \in zeros : j <= k
             IN  [k \in 1..Len(bits) |->
                    IF k < z THEN bits[k] ELSE IF k = z THEN 1 ELSE 0]

\* the binary64 nearest to (bits + f) * 2^e, where bits starts with a 1 and
\* 0 <= f < 1 is nonzero exactly when sticky holds
Binary64Round(bits, sticky, e) ==
    IF Len(bits) <= SigBits
    THEN [sig |-> bits \o [k \in 1..(SigBits - Len(bits)) |-> 0],
          exp |-> e - (SigBits - Len(bits))]
    ELSE LET keep  == SubSeq(bits, 1, SigBits)
             guard == bits[SigBits + 1]
             rest  == sticky \/ \E k \in (SigBits + 2)..Len(bits) : bits[k] = 1
             up    == guard = 1 /\ (rest \/ keep[SigBits] = 1)
             inc   == IncrementBits(keep)
             drop  == Len(bits) - SigBits
         IN  IF ~up THEN [sig |-> keep, exp |-> e + drop]
             ELSE IF Len(inc) = SigBits THEN [sig |-> inc, exp |-> e + drop]
             ELSE [sig |-> SubSeq(inc, 1, SigBits), exp |-> e + drop + 1]

\* long division: the next n bits of r / q for a remainder 0 <= r < q < 2^17,
\* appended to acc, with the remainder left after them
RECURSIVE DivBits(_, _, _, _)
DivBits(r, q, n, acc) ==
    IF n = 0 THEN [bits |-> acc, rem |-> r]
    ELSE LET w == Min2(n, ChunkBits)
             v == r * 2^w
         IN  DivBits(v % q, q, n - w, acc \o FixedBits(v \div q, w))

\* the number of doublings that bring r up to at least q (0 < r < q)
RECURSIVE LeadShift(_, _)
LeadShift(r, q) == IF 2 * r >= q THEN 1 ELSE 1 + LeadShift(2 * r, q)

\* p / q as JavaScript computes it, for integers 0 <= p < q < 2^17
Binary64Div(p, q) ==
    IF p = 0 THEN Binary64Zero
    ELSE LET k == LeadShift(p, q)
             d == DivBits(p, q, k + SigBits, <<>>)
         IN  Binary64Round(SubSeq(d.bits, k, k + SigBits), d.rem # 0,
                           0 - (k + SigBits))

\* bits * n + carry for naturals n, carry < 2^16, exactly
RECURSIVE MulBits(_, _, _)
MulBits(bits, n, carry) ==
    IF bits = <<>> THEN NatToBits(carry)
    ELSE LET w == Min2(Len(bits), ChunkBits)
             v == BitsToNat(SubSeq(bits, Len(bits) - w + 1, Len(bits))) * n
                    + carry
         IN  MulBits(SubSeq(bits, 1, Len(bits) - w), n, v \div 2^w)
                \o FixedBits(v % 2^w, w)

\* x * n as JavaScript computes it, for a binary64 x >= 0 and 0 < n < 2^16
Binary64MulNat(x, n) ==
    IF x.sig = <<>> THEN Binary64Zero
    ELSE Binary64Round(MulBits(x.sig, n, 0), FALSE, x.exp)

\* Math.round(x) for a binary64 0 <= x < 2^30: floor(x + 0.5), exactly
MathRound(x) ==
    IF x.sig = <<>> THEN 0
    ELSE LET n == SigBits + x.exp       \* number of bits before the point
         IN  IF n < 0 THEN 0
             ELSE BitsToNat(SubSeq(x.sig, 1, n)) + x.sig[n + 1]

\* Math.round(similarity) for Math.round(similarity * 100) / 100: the score
\* rounded to a whole number
RoundedScore_Whole(maxLength, distance) ==
    100 * MathRound(Binary64MulNat(
                        Binary64Div(maxLength - distance, maxLength), 100))

\* Math.round((((maxLength - distance) / maxLength) * 100) * 100), the score
\* in hundredths
RoundedScore(maxLength, distance) ==
    MathRound(Binary64MulNat(
                  Binary64MulNat(Binary64Div(maxLength - distance, maxLength),
                                 100),
                  100))

(***************************************************************************)
(* The string methods calculateSimilarity uses.                            *)
(***************************************************************************)
UpperCaseLetters == "ABCDEFGHIJKLMNOPQRSTUVWXYZ"
LowerCaseLetters == "abcdefghijklmnopqrstuvwxyz"

\* the upper-case letters, one string each
UpperCaseSet ==
    {CharAt(UpperCaseLetters, k) : k \in 1..Len(UpperCaseLetters)}

\* the characters \s matches and trim() strips, among those of the model
WhiteSpace == {" ", "\t", "\n", "\r", "\f"}

\* the lower-case form of the one-character string c: the letters A-Z have
\* one, the other characters of the model are their own
LowerChar(c) ==
    IF c \notin UpperCaseSet THEN c
    ELSE LET at == {k \in 1..Len(UpperCaseLetters) :
                       CharAt(UpperCaseLetters, k) = c}
         IN  CharAt(LowerCaseLetters, CHOOSE k \in at : TRUE)

\* the concatenation of the strings pieces[lo..hi]
RECURSIVE Concat(_, _, _)
Concat(pieces, lo, hi) ==
    IF lo > hi THEN ""
    ELSE IF lo = hi THEN pieces[lo]
    ELSE Concat(pieces, lo, (lo + hi) \div 2)
            \o Concat(pieces, (lo + hi) \div 2 + 1, hi)

\* s.toLowerCase()
toLowerCase(s) ==
    Concat([k \in 1..Len(s) |-> LowerChar(CharAt(s, k))], 1, Len(s))

\* trimStart() for trim(): only the leading white space is stripped
trim_StartOnly(s) ==
    LET kept == {k \in 1..Len(s) : CharAt(s, k) \notin WhiteSpace}
    IN  IF kept = {} THEN ""
        ELSE SubSeq(s, CHOOSE k \in kept : \A j \in kept : k <= j, Len(s))

\* s.trim()
trim(s) ==
    LET kept == {k \in 1..Len(s) : CharAt(s, k) \notin WhiteSpace}
    IN  IF kept = {} THEN ""
        ELSE SubSeq(s, CHOOSE k \in kept : \A j \in kept : k <= j,
                       CHOOSE k \in kept : \A j \in kept : j <= k)

\* the pattern /\s\s/g for /\s+/g: every two white-space characters of a run
\* become one space, and the last of an odd run stays as it is
collapseWhiteSpace_Pairs(s) ==
    LET RunOffset(k) ==
            k - (CHOOSE m \in 0..(k - 1) :
                    /\ m = 0 \/ CharAt(s, m) \notin WhiteSpace
                    /\ \A n \in (m + 1)..k : CharAt(s, n) \in WhiteSpace)
    IN  Concat([k \in 1..Len(s) |->
                  IF CharAt(s, k) \notin WhiteSpace THEN CharAt(s, k)
                  ELSE IF RunOffset(k) % 2 = 0 THEN ""
                  ELSE IF k < Len(s) /\ CharAt(s, k + 1) \in WhiteSpace THEN " "
                  ELSE CharAt(s, k)],
               1, Len(s))

\* s.replace(/\s+/g, ' '): every maximal run of white space becomes one space
collapseWhiteSpace(s) ==
    Concat([k \in 1..Len(s) |->
              IF CharAt(s, k) \notin WhiteSpace THEN CharAt(s, k)
              ELSE IF k > 1 /\ CharAt(s, k - 1) \in WhiteSpace THEN ""
              ELSE " "],
           1, Len(s))

\* normalize without the toLowerCase() call
normalize_NoLowerCase(text) == collapseWhiteSpace(trim(text))

\* text.toLowerCase().trim().replace(/\s+/g, ' ')  (script.js 79-80)
normalize(text) == collapseWhiteSpace(trim(toLowerCase(text)))

Max2(x, y) == IF x >= y THEN x ELSE y

(***************************************************************************)
(* calculateSimilarity (script.js 75-91); the score is in hundredths.      *)
(* The four operators before it are calculateSimilarity with one slip.     *)
(***************************************************************************)
\* returns Math.round(similarity * 100) without dividing it by 100
calculateSimilarity_NoDivide(text1, text2) ==
    IF Falsy(text1) \/ Falsy(text2) THEN 0
    ELSE LET normalizedText1 == normalize(text1)
             normalizedText2 == normalize(text2)
             maxLength == Max2(Len(normalizedText1), Len(normalizedText2))
             distance == levenshteinDistance(normalizedText1, normalizedText2)
         IN  IF normalizedText1 = normalizedText2 THEN 100 * 100
             ELSE IF maxLength = 0 THEN 100 * 100
             ELSE 100 * RoundedScore(maxLength, distance)

\* without the guard on empty and absent inputs
calculateSimilarity_NoGuard(text1, text2) ==
    LET normalizedText1 == normalize(text1)
        normalizedText2 == normalize(text2)
        maxLength == Max2(Len(normalizedText1), Len(normalizedText2))
        distance == levenshteinDistance(normalizedText1, normalizedText2)
    IN  IF normalizedText1 = normalizedText2 THEN 100 * 100
        ELSE IF maxLength = 0 THEN 100 * 100
        ELSE RoundedScore(maxLength, distance)

\* the guard written with && for ||
calculateSimilarity_AndGuard(text1, text2) ==
    IF Falsy(text1) /\ Falsy(text2) THEN 0
    ELSE calculateSimilarity_NoGuard(text1, text2)

\* text2 normalized without toLowerCase()
calculateSimilarity_OneCase(text1, text2) ==
    IF Falsy(text1) \/ Falsy(text2) THEN 0
    ELSE LET normalizedText1 == normalize(text1)
             normalizedText2 == normalize_NoLowerCase(text2)
             maxLength == Max2(Len(normalizedText1), Len(normalizedText2))
             distance == levenshteinDistance(normalizedText1, normalizedText2)
         IN  IF normalizedText1 = normalizedText2 THEN 100 * 100
             ELSE IF maxLength = 0 THEN 100 * 100
             ELSE RoundedScore(maxLength, distance)

calculateSimilarity(text1, text2) ==
    IF Falsy(text1) \/ Falsy(text2) THEN 0
    ELSE LET normalizedText1 == normalize(text1)
             normalizedText2 == normalize(text2)
             maxLength == Max2(Len(normalizedText1), Len(normalizedText2))
             distance == levenshteinDistance(normalizedText1, normalizedText2)
         IN  IF normalizedText1 = normalizedText2 THEN 100 * 100
             ELSE IF maxLength = 0 THEN 100 * 100
             ELSE RoundedScore(maxLength, distance)

(***************************************************************************)
(* findSimilarQuestionsForQuestion (script.js 93-109).  A question is a    *)
(* record with the fields id and question_text; an entry of the result is  *)
(* a copy of a question with the field similarity added.  null and         *)
(* undefined in the place of a question are NullObject and                 *)
(* UndefinedObject.  The threshold is in hundredths, like the scores.      *)
(***************************************************************************)
\* { ...question, similarity: similarity }
WithSimilarity(question, similarity) ==
    [field \in DOMAIN question \cup {"similarity"} |->
        IF field = "similarity" THEN similarity ELSE question[field]]

\* the comparator with its operands exchanged: ascending order
RECURSIVE InsertBySimilarity_Ascending(_, _)
InsertBySimilarity_Ascending(sorted, entry) ==
    IF sorted = <<>> THEN <<entry>>
    ELSE IF Head(sorted).similarity - entry.similarity > 0
         THEN <<entry>> \o sorted
         ELSE <<Head(sorted)>>
                 \o InsertBySimilarity_Ascending(Tail(sorted), entry)

\* entry put into the sorted sequence sorted, after the entries that do not
\* sort after it: the comparator (a, b) => b.similarity - a.similarity
\* under the stable Array.prototype.sort
RECURSIVE InsertBySimilarity(_, _)
InsertBySimilarity(sorted, entry) ==
    IF sorted = <<>> THEN <<entry>>
    ELSE IF entry.similarity - Head(sorted).similarity > 0
         THEN <<entry>> \o sorted
         ELSE <<Head(sorted)>> \o InsertBySimilarity(Tail(sorted), entry)

\* entries.sort((a, b) => b.similarity - a.similarity)
RECURSIVE sortBySimilarity(_)
sortBySimilarity(entries) ==
    IF entries = <<>> THEN <<>>
    ELSE InsertBySimilarity(
             sortBySimilarity(SubSeq(entries, 1, Len(entries) - 1)),
             entries[Len(entries)])

\* the callback of filter with > for >=
IsSimilarTo_Strict(targetQuestion, threshold, question) ==
    IF question.id = targetQuestion.id THEN FALSE
    ELSE calculateSimilarity(targetQuestion.question_text,
                             question.question_text) > threshold

\* the callback of filter without the comparison of the ids
IsSimilarTo_NoSelfExclusion(targetQuestion, threshold, question) ==
    calculateSimilarity(targetQuestion.question_text,
                        question.question_text) >= threshold

\* the callback of filter leaving out the questions without a text
IsSimilarTo_TextRequired(targetQuestion, threshold, question) ==
    IF question.id = targetQuestion.id THEN FALSE
    ELSE IF Falsy(question.question_text) THEN FALSE
    ELSE calculateSimilarity(targetQuestion.question_text,
                             question.question_text) >= threshold

\* the callback of filter (script.js 96-105)
IsSimilarTo(targetQuestion, threshold, question) ==
    IF question.id = targetQuestion.id THEN FALSE
    ELSE calculateSimilarity(targetQuestion.question_text,
                             question.question_text) >= threshold

\* the guard of line 94 without its test of the target's text
findSimilarQuestionsForQuestion_NoTextGuard(qs, targetQuestion, threshold) ==
    IF targetQuestion \in {NullObject, UndefinedObject} THEN <<>>
    ELSE LET kept == SelectSeq(qs, LAMBDA question :
                        IsSimilarTo(targetQuestion, threshold, question))
             mapped == [k \in 1..Len(kept) |->
                          WithSimilarity(kept[k],
                              calculateSimilarity(targetQuestion.question_text,
                                                  kept[k].question_text))]
         IN  sortBySimilarity(mapped)

\* this.questions.filter(...).map(...).sort(...) for the collection qs
findSimilarQuestionsForQuestion(qs, targetQuestion, threshold) ==
    IF targetQuestion \in {NullObject, UndefinedObject} THEN <<>>
    ELSE IF Falsy(targetQuestion.question_text) THEN <<>>
    ELSE LET kept == SelectSeq(qs, LAMBDA question :
                        IsSimilarTo(targetQuestion, threshold, question))
             mapped == [k \in 1..Len(kept) |->
                          WithSimilarity(kept[k],
                              calculateSimilarity(targetQuestion.question_text,
                                                  kept[k].question_text))]
         IN  sortBySimilarity(mapped)

(***************************************************************************)
(* Calls of the pure functions.                                            *)
(***************************************************************************)
LevStrings == StringsUpTo(LevAlphabet, MaxLevLen)

LevLiteralPairs == {<<"kitten", "sitting">>, <<"sitting", "kitten">>,
                    <<"flaw", "lawn">>}

InitLev ==
    /\ questions = <<>>
    /\ constructorFields
    /\ op = "none"
    /\ ret = Null
    /\ \E pair \in (LevStrings \X LevStrings) \cup LevLiteralPairs :
           arg1 = pair[1] /\ arg2 = pair[2]

CallLevenshteinDistance ==
    /\ op = "none"
    /\ op' = "levenshteinDistance"
    /\ ret' = levenshteinDistance(arg1, arg2)
    /\ UNCHANGED <<questions, arg1, arg2, managerVars>>

NextLev == CallLevenshteinDistance

SpecLev == InitLev /\ [][NextLev]_vars

(***************************************************************************)
(* The edit distance by its definition: the least number of single         *)
(* insertions, deletions and substitutions, found by breadth-first search  *)
(* over the strings an edit script can pass through.                       *)
(***************************************************************************)
Deletions(s) ==
    {SubSeq(s, 1, i - 1) \o SubSeq(s, i + 1, Len(s)) : i \in 1..Len(s)}

Substitutions(s) ==
    {SubSeq(s, 1, i - 1) \o c \o SubSeq(s, i + 1, Len(s)) :
        i \in 1..Len(s), c \in LevAlphabet}

Insertions(s) ==
    IF Len(s) > MaxLevLen THEN {}
    ELSE {SubSeq(s, 1, i) \o c \o SubSeq(s, i + 1, Len(s)) :
            i \in 0..Len(s), c \in LevAlphabet}

OneEdit(s) == Deletions(s) \cup Substitutions(s) \cup Insertions(s)

RECURSIVE EditSteps(_, _, _)
EditSteps(reached, b, k) ==
    IF b \in reached THEN k
    ELSE EditSteps(reached \cup UNION {OneEdit(s) : s \in reached}, b, k + 1)

MinEdits(a, b) == EditSteps({a}, b, 0)

\* C1: levenshteinDistance(a, b) is the least number of single-character
\* insertions, deletions and substitutions that turn a into b; so the
\* distance of a string to itself is 0 and that of "kitten" to "sitting" is 3.
C1_LevenshteinIsMinEdits ==
    op = "levenshteinDistance" =>
        /\ (arg1 \in LevStrings /\ arg2 \in LevStrings)
               => ret = MinEdits(arg1, arg2)
        /\ arg1 = arg2 => ret = 0
        /\ (arg1 = "kitten" /\ arg2 = "sitting") => ret = 3

C1_Witness ==
    /\ op = "levenshteinDistance"
    /\ arg1 = "ab" /\ arg2 = "bba"
    /\ ret = 2

C1_WitnessKitten ==
    op = "levenshteinDistance" /\ arg1 = "kitten" /\ arg2 = "sitting" /\ ret = 3

\* C16: levenshteinDistance is symmetric: the distance from a to b is the
\* distance from b to a.
C16_LevenshteinSymmetric ==
    op = "levenshteinDistance" => ret = levenshteinDistance(arg2, arg1)

C16_Witness ==
    /\ op = "levenshteinDistance"
    /\ arg1 = "a" /\ arg2 = "abb"
    /\ ret = 2
    /\ levenshteinDistance("abb", "a") = 2

(***************************************************************************)
(* Calls of calculateSimilarity: every pair of enumerated inputs, and the  *)
(* listed pairs of longer texts in both orders.                            *)
(***************************************************************************)
SimInputs == StringsUpTo(SimAlphabet, MaxTextLen) \cup {Null, Undefined}

\* two texts of 160 characters at distance 63
LongText1 == Repeat("a", 160)
LongText2 == Repeat("b", 63) \o Repeat("a", 97)

SimLiteralPairs ==
    LET pairs == {<<"Hello World", "hello   world">>,
                  <<"kitten", "sitting">>,
                  <<"a \t\n b", "A b">>,
                  <<"\tA  a ", "a a">>,
                  <<" \t", "\n">>,
                  <<"Question one?", " question  ONE?">>,
                  <<"What is the capital of France?",
                    "What is the capital of france">>,
                  <<"What is the capital of France?",
                    "How tall is Mount Everest?">>,
                  <<LongText1, LongText2>>,
                  <<LongText1, Null>>}
    IN  pairs \cup {<<pr[2], pr[1]>> : pr \in pairs}

InitSim ==
    /\ questions = <<>>
    /\ constructorFields
    /\ op = "none"
    /\ ret = Null
    /\ \E pair \in (SimInputs \X SimInputs) \cup SimLiteralPairs :
           arg1 = pair[1] /\ arg2 = pair[2]

CallCalculateSimilarity ==
    /\ op = "none"
    /\ op' = "calculateSimilarity"
    /\ ret' = calculateSimilarity(arg1, arg2)
    /\ UNCHANGED <<questions, arg1, arg2, managerVars>>

NextSim == CallCalculateSimilarity

SpecSim == InitSim /\ [][NextSim]_vars

\* both arguments of the call pass the guard of calculateSimilarity
BothPresent == ~Falsy(arg1) /\ ~Falsy(arg2)

\* C2: for all inputs, absent and empty ones included, calculateSimilarity
\* returns a score from 0 to 100, and the edit distance of the two normalized
\* strings is at most the larger of their lengths.
C2_ScoreInRange ==
    op = "calculateSimilarity" =>
        /\ 0 <= ret /\ ret <= 100 * 100
        /\ BothPresent =>
              levenshteinDistance(normalize(arg1), normalize(arg2))
                 <= Max2(Len(normalize(arg1)), Len(normalize(arg2)))

C2_Witness ==
    /\ op = "calculateSimilarity"
    /\ arg1 = "aA" /\ arg2 = "a a"
    /\ ret = 6667

\* C3 as stated: the score of a text against itself is 100, the empty
\* string against itself included, and so is the score of two texts whose
\* normalized forms are identical.
C3_Original_IdenticalIs100 ==
    op = "calculateSimilarity" =>
        /\ (arg1 = arg2 /\ arg1 \notin {Null, Undefined}) => ret = 100 * 100
        /\ (BothPresent /\ normalize(arg1) = normalize(arg2))
              => ret = 100 * 100

\* C3 as amended: the score of a non-empty text against itself is 100, and
\* so is the score of two non-empty inputs whose normalized forms are
\* identical, two inputs of white space only included; the score of the
\* empty string against itself is 0.
C3_IdenticalPresentIs100 ==
    op = "calculateSimilarity" =>
        /\ (BothPresent /\ arg1 = arg2) => ret = 100 * 100
        /\ (BothPresent /\ normalize(arg1) = normalize(arg2))
              => ret = 100 * 100
        /\ (arg1 = "" /\ arg2 = "") => ret = 0

C3_Witness ==
    /\ op = "calculateSimilarity"
    /\ arg1 = " " /\ arg2 = "  "
    /\ ret = 100 * 100

\* C4: when either input is the empty string, null or undefined the score
\* is 0, whatever the other input is.
C4_AbsentIsZero ==
    (op = "calculateSimilarity" /\ (Falsy(arg1) \/ Falsy(arg2))) => ret = 0

C4_Witness ==
    /\ op = "calculateSimilarity"
    /\ arg1 = Undefined /\ arg2 = "aAa"
    /\ ret = 0

\* C5: the score is symmetric: calculateSimilarity(a, b) is
\* calculateSimilarity(b, a), for absent and empty inputs too.
C5_Symmetric ==
    op = "calculateSimilarity" => ret = calculateSimilarity(arg2, arg1)

C5_Witness ==
    /\ op = "calculateSimilarity"
    /\ arg1 = "a A" /\ arg2 = "A"
    /\ ret = 3333

\* C6: two non-empty inputs whose normalized forms are equal score 100; so
\* does "Hello World" against "hello   world".
C6_NormalizedEqualIs100 ==
    op = "calculateSimilarity" =>
        /\ (BothPresent /\ normalize(arg1) = normalize(arg2))
              => ret = 100 * 100
        /\ (arg1 = "Hello World" /\ arg2 = "hello   world") => ret = 100 * 100

C6_Witness ==
    /\ op = "calculateSimilarity"
    /\ arg1 = "Hello World" /\ arg2 = "hello   world"
    /\ normalize(arg1) = "hello world"
    /\ ret = 100 * 100

\* floor(10000 * (maxLen - d) / maxLen + 1/2): the score in hundredths that
\* rounding half up to two decimal places gives
HalfUpScore(maxLen, d) == (2 * 10000 * (maxLen - d) + maxLen) \div (2 * maxLen)

\* C7: for non-empty inputs whose normalized forms n1, n2 differ, the score
\* is ((maxLen - d) / maxLen) * 100 rounded half up to two decimal places,
\* with maxLen the larger length and d the edit distance of n1 and n2.
C7_RoundHalfUp ==
    (op = "calculateSimilarity" /\ BothPresent
        /\ normalize(arg1) # normalize(arg2))
        => ret = HalfUpScore(Max2(Len(normalize(arg1)), Len(normalize(arg2))),
                             levenshteinDistance(normalize(arg1),
                                                 normalize(arg2)))

(***************************************************************************)
(* The normalization of calculateSimilarity (script.js 79-80) applied to   *)
(* one text: every string over NormAlphabet of at most MaxNormLen          *)
(* characters, and the listed longer texts.                                *)
(***************************************************************************)
MaxNormLen == 3

NormAlphabet == {"a", "A", " ", "\t"}

NormLiterals == {"Hello   World", "  Hello \t\n World  ", "a \t\n b",
                 "\tA  a ", " \t\r\n\f", "What is the capital of France?",
                 "a    B     c"}

InitNorm ==
    /\ questions = <<>>
    /\ constructorFields
    /\ op = "none"
    /\ ret = Null
    /\ arg1 \in StringsUpTo(NormAlphabet, MaxNormLen) \cup NormLiterals
    /\ arg2 = Null

\* const normalizedText1 = text1.toLowerCase().trim().replace(/\s+/g, ' ')
CallNormalize ==
    /\ op = "none"
    /\ op' = "normalize"
    /\ ret' = normalize(arg1)
    /\ UNCHANGED <<questions, arg1, arg2, managerVars>>

NextNorm == CallNormalize

SpecNorm == InitNorm /\ [][NextNorm]_vars

\* C14: the normalization is idempotent: the normalized form of a string,
\* the empty one included, is its own normalized form.
C14_NormalizeIdempotent ==
    op = "normalize" => normalize(ret) = ret

C14_Witness ==
    /\ op = "normalize"
    /\ arg1 = "Hello   World"
    /\ ret = "hello world"
    /\ normalize(ret) = "hello world"

\* C15: the normalized form has no upper-case letter, neither starts nor
\* ends with white space, and its only white-space characters are single
\* spaces, no two of them adjacent; the empty string maps to itself.
C15_NormalizedForm ==
    op = "normalize" =>
        /\ \A k \in 1..Len(ret) : \A u \in 1..Len(UpperCaseLetters) :
              CharAt(ret, k) # CharAt(UpperCaseLetters, u)
        /\ ret # "" => /\ CharAt(ret, 1) \notin WhiteSpace
                       /\ CharAt(ret, Len(ret)) \notin WhiteSpace
        /\ \A k \in 1..Len(ret) :
              CharAt(ret, k) \in WhiteSpace =>
                  /\ CharAt(ret, k) = " "
                  /\ k < Len(ret) => CharAt(ret, k + 1) # " "
        /\ arg1 = "" => ret = ""

C15_Witness ==
    /\ op = "normalize"
    /\ arg1 = "  Hello \t\n World  "
    /\ ret = "hello world"

(***************************************************************************)
(* Calls of findSimilarQuestionsForQuestion: every collection of at most   *)
(* MaxQuestions questions over QuestionIds and QuestionTexts (ids may      *)
(* repeat, as in a collection loadQuestions built from a file with         *)
(* repeated ids), every target and every threshold of Thresholds.          *)
(***************************************************************************)
QuestionIds == {"1", "2"}

\* the target is a question of the collection or one that is not in it
TargetIds == {"1", "3"}

\* against "abcd" these score 0, 100, 100 and 75
QuestionTexts == {"", "abcd", "ABCD ", "abcx"}

Thresholds == {0, 70 * 100, 100 * 100}

Questions == [id : QuestionIds, question_text : QuestionTexts]

Targets == [id : TargetIds, question_text : QuestionTexts]
              \cup {NullObject, UndefinedObject}

Collections == UNION {[1..n -> Questions] : n \in 0..MaxQuestions}

\* the collection of the worked example
FranceCollection ==
    <<[id |-> "1", question_text |-> "What is the capital of France?"],
      [id |-> "2", question_text |-> "What is the capital of france"],
      [id |-> "3", question_text |-> "How tall is Mount Everest?"]>>

\* a collection with a question whose text is missing and one whose text is
\* empty; findSimilarQuestionsForQuestion accepts it, loadQuestions would
\* have put '' for the missing text
SparseCollection ==
    <<[id |-> "1", question_text |-> "abcd"],
      [id |-> "2", question_text |-> Undefined],
      [id |-> "3", question_text |-> ""],
      [id |-> "4", question_text |-> Null]>>

\* listed calls: <<collection, target, threshold>>
FindLiterals ==
    {<<FranceCollection, FranceCollection[1], 70 * 100>>,
     <<FranceCollection, FranceCollection[3], 0>>,
     <<SparseCollection, SparseCollection[1], 0>>,
     <<SparseCollection, SparseCollection[2], 0>>,
     <<SparseCollection, SparseCollection[4], 0>>}

InitFind ==
    /\ op = "none"
    /\ constructorFields
    /\ ret = Null
    /\ \/ /\ questions \in Collections
          /\ arg1 \in Targets
          /\ arg2 \in Thresholds
       \/ \E call \in FindLiterals :
              questions = call[1] /\ arg1 = call[2] /\ arg2 = call[3]

CallFindSimilarQuestionsForQuestion ==
    /\ op = "none"
    /\ op' = "findSimilarQuestionsForQuestion"
    /\ ret' = findSimilarQuestionsForQuestion(questions, arg1, arg2)
    /\ UNCHANGED <<questions, arg1, arg2, managerVars>>

NextFind == CallFindSimilarQuestionsForQuestion

SpecFind == InitFind /\ [][NextFind]_vars

\* the call was made with a target that has a non-empty text
FoundForTarget ==
    /\ op = "findSimilarQuestionsForQuestion"
    /\ arg1 \notin {NullObject, UndefinedObject}
    /\ ~Falsy(arg1.question_text)

\* the positions of the collection the call has to return
Expected ==
    {k \in 1..Len(questions) :
        /\ questions[k].id # arg1.id
        /\ calculateSimilarity(questions[k].question_text,
                               arg1.question_text) >= arg2}

\* C8: for a target with non-empty text the result has exactly one entry
\* for each question whose id differs from the target's and whose score
\* against the target's text is at least the threshold, and no other entry;
\* each entry carries the score of its question against the target.
C8_ExactlyTheSimilar ==
    FoundForTarget =>
        LET expected == Expected
            score == [k \in 1..Len(questions) |->
                        calculateSimilarity(questions[k].question_text,
                                            arg1.question_text)]
        IN  \E f \in [1..Len(ret) -> 1..Len(questions)] :
                /\ \A i, j \in 1..Len(ret) : i # j => f[i] # f[j]
                /\ {f[i] : i \in 1..Len(ret)} = expected
                /\ \A i \in 1..Len(ret) :
                      /\ ret[i].id = questions[f[i]].id
                      /\ ret[i].question_text = questions[f[i]].question_text
                      /\ ret[i].similarity = score[f[i]]

C8_Witness ==
    /\ FoundForTarget
    /\ arg1 = [id |-> "1", question_text |-> "abcd"]
    /\ arg2 = 70 * 100
    /\ questions = <<[id |-> "1", question_text |-> "abcd"],
                     [id |-> "2", question_text |-> "abcx"]>>
    /\ ret = <<[id |-> "2", question_text |-> "abcx", similarity |-> 7500]>>

\* C9: the result is ordered by descending score.
C9_SortedDescending ==
    op = "findSimilarQuestionsForQuestion" =>
        \A i, j \in 1..Len(ret) :
            i < j => ret[i].similarity >= ret[j].similarity

C9_Witness ==
    /\ op = "findSimilarQuestionsForQuestion"
    /\ Len(ret) = 2
    /\ questions[1].question_text = "abcx"
    /\ ret[1].similarity = 100 * 100
    /\ ret[2].similarity = 7500

\* C10 as stated: no entry has the target's id, and every question with
\* another id and the target's text is returned with score 100 when the
\* threshold is at most 100.
C10_Original_OnlyById ==
    (op = "findSimilarQuestionsForQuestion"
        /\ arg1 \notin {NullObject, UndefinedObject}) =>
        /\ \A i \in 1..Len(ret) : ret[i].id # arg1.id
        /\ \A k \in 1..Len(questions) :
              (questions[k].id # arg1.id
                  /\ questions[k].question_text = arg1.question_text
                  /\ arg2 <= 100 * 100)
              => \E i \in 1..Len(ret) :
                    /\ ret[i].id = questions[k].id
                    /\ ret[i].question_text = questions[k].question_text
                    /\ ret[i].similarity = 100 * 100

\* C10 as amended: no entry has the target's id; when the target's text is
\* not empty, every question with another id and the target's text is
\* returned with score 100 when the threshold is at most 100.
C10_OnlyById ==
    (op = "findSimilarQuestionsForQuestion"
        /\ arg1 \notin {NullObject, UndefinedObject}) =>
        /\ \A i \in 1..Len(ret) : ret[i].id # arg1.id
        /\ \A k \in 1..Len(questions) :
              (questions[k].id # arg1.id
                  /\ ~Falsy(arg1.question_text)
                  /\ questions[k].question_text = arg1.question_text
                  /\ arg2 <= 100 * 100)
              => \E i \in 1..Len(ret) :
                    /\ ret[i].id = questions[k].id
                    /\ ret[i].question_text = questions[k].question_text
                    /\ ret[i].similarity = 100 * 100

C10_Witness ==
    /\ op = "findSimilarQuestionsForQuestion"
    /\ arg1 = [id |-> "1", question_text |-> "abcd"]
    /\ arg2 = 100 * 100
    /\ questions = <<[id |-> "1", question_text |-> "abcd"],
                     [id |-> "2", question_text |-> "abcd"]>>
    /\ ret = <<[id |-> "2", question_text |-> "abcd", similarity |-> 10000]>>

\* C11: when the target is null or undefined, or its text is empty or
\* missing, the call returns the empty sequence, whatever the collection and
\* the threshold are.
C11_AbsentTargetIsEmpty ==
    (op = "findSimilarQuestionsForQuestion"
        /\ (arg1 \in {NullObject, UndefinedObject}
               \/ Falsy(arg1.question_text)))
        => ret = <<>>

C11_Witness ==
    /\ op = "findSimilarQuestionsForQuestion"
    /\ arg1 = [id |-> "3", question_text |-> ""]
    /\ arg2 = 0
    /\ Len(questions) = 2
    /\ ret = <<>>

C11_WitnessNull ==
    /\ op = "findSimilarQuestionsForQuestion"
    /\ arg1 = NullObject
    /\ arg2 = 0
    /\ Len(questions) = 2
    /\ ret = <<>>

\* C12: with threshold 0 and a target with non-empty text the result holds
\* every question whose id is not the target's, each as often as the
\* collection holds it, the questions with an empty or missing text
\* included, and nothing else.
C12_ThresholdZeroReturnsAll ==
    (FoundForTarget /\ arg2 = 0) =>
        LET others == {k \in 1..Len(questions) : questions[k].id # arg1.id}
            Same(entry, question) ==
                /\ entry.id = question.id
                /\ entry.question_text = question.question_text
        IN  /\ Len(ret) = Cardinality(others)
            /\ \A k \in others :
                  Cardinality({i \in 1..Len(ret) : Same(ret[i], questions[k])})
                     = Cardinality({j \in others :
                                       questions[j] = questions[k]})

C12_Witness ==
    /\ FoundForTarget
    /\ arg2 = 0
    /\ questions = SparseCollection
    /\ arg1 = SparseCollection[1]
    /\ Len(ret) = 3
    /\ \A i \in 1..3 : ret[i].similarity = 0
    /\ \E i \in 1..3 : ret[i].question_text = Undefined

\* C17: for the collection of the worked example, the question with id "1"
\* as target and the threshold 70, the result is the one entry with id "2",
\* with a score between 96 and 97; the question with id "3" scores below 70.
C17_FranceExample ==
    (op = "findSimilarQuestionsForQuestion"
        /\ questions = FranceCollection
        /\ arg1 = FranceCollection[1]
        /\ arg2 = 70 * 100)
        => /\ Len(ret) = 1
           /\ ret[1].id = "2"
           /\ 96 * 100 < ret[1].similarity /\ ret[1].similarity < 97 * 100
           /\ calculateSimilarity(FranceCollection[1].question_text,
                                  FranceCollection[3].question_text) < 70 * 100

C17_Witness ==
    /\ op = "findSimilarQuestionsForQuestion"
    /\ questions = FranceCollection
    /\ arg1 = FranceCollection[1]
    /\ arg2 = 70 * 100
    /\ ret = <<[id |-> "2", question_text |-> "What is the capital of france",
                similarity |-> 9667]>>

(***************************************************************************)
(* The manager (script.js 14-25 and the handlers) and the page it works    *)
(* on.  A question held in this.questions is a record with the fields id,  *)
(* question_text, options, category, difficulty, _hasChanges and           *)
(* _isDeleted; _isDeleted = FALSE stands for the field being absent.       *)
(*                                                                         *)
(* JavaScript objects are shared by reference.  A reference to the object  *)
(* at this.questions[k - 1] is [index |-> k].  A reference to an object    *)
(* that is not in this.questions (a copy made by applyFilters, or an       *)
(* object the array no longer holds) is [object |-> its value, shares |->  *)
(* k]: the spread of applyFilters copies the fields of a question, so the  *)
(* copy holds the very options array of the question, and shares is the    *)
(* position of the question whose options array the object holds, 0 when   *)
(* no question of this.questions holds that array.                         *)
(*                                                                         *)
(* A method of the manager is an operator from the state before the call   *)
(* to the state after it; the state is the record State of the values of   *)
(* the variables.                                                          *)
(***************************************************************************)
\* stands for the default category of script.js 293
DefaultCategory == "general"

\* stand for the text and the options of script.js 812-813
NewQuestionText == "new question"
NewQuestionOptions == <<"right", "wrong 1", "wrong 2", "wrong 3">>

\* ['', '', '', '']
DefaultOptions == <<"", "", "", "">>

\* the field options absent, or not an array
MissingOptions == <<Undefined>>

IsArray(options) == options # MissingOptions

\* x || d for a string x
OrElse(x, d) == IF Falsy(x) THEN d ELSE x

Range(seq) == {seq[k] : k \in 1..Len(seq)}

\* the values of the variables, with ret the outcome of the call under way
State ==
    [questions |-> questions,
     filteredQuestions |-> filteredQuestions,
     categories |-> categories,
     showSimilarQuestions |-> showSimilarQuestions,
     selectedQuestionForSimilarity |-> selectedQuestionForSimilarity,
     localStorage |-> localStorage,
     searchInput |-> searchInput,
     categoryFilter |-> categoryFilter,
     difficultyFilter |-> difficultyFilter,
     cards |-> cards,
     reading |-> reading,
     ret |-> Undefined]

\* the variables take the values of the state m
Becomes(m) ==
    /\ questions' = m.questions
    /\ filteredQuestions' = m.filteredQuestions
    /\ categories' = m.categories
    /\ showSimilarQuestions' = m.showSimilarQuestions
    /\ selectedQuestionForSimilarity' = m.selectedQuestionForSimilarity
    /\ localStorage' = m.localStorage
    /\ searchInput' = m.searchInput
    /\ categoryFilter' = m.categoryFilter
    /\ difficultyFilter' = m.difficultyFilter
    /\ cards' = m.cards
    /\ reading' = m.reading
    /\ ret' = m.ret

\* the object a reference stands for, with qs the value of this.questions
Deref(qs, reference) ==
    IF "index" \in DOMAIN reference THEN qs[reference.index]
    ELSE reference.object

\* the references [...this.questions] holds
AllReferences(qs) == [k \in 1..Len(qs) |-> [index |-> k]]

\* a reference once this.questions has been replaced by new objects
Detached(qs, reference) ==
    IF "index" \in DOMAIN reference
    THEN [object |-> qs[reference.index], shares |-> 0]
    ELSE IF "object" \in DOMAIN reference
    THEN [object |-> reference.object, shares |-> 0]
    ELSE reference

\* a reference once an object has been put in front of this.questions
Shifted(reference) ==
    IF "index" \in DOMAIN reference THEN [index |-> reference.index + 1]
    ELSE IF "object" \in DOMAIN reference /\ reference.shares # 0
    THEN [reference EXCEPT !.shares = @ + 1]
    ELSE reference

\* the position a reference's options array is found at in this.questions,
\* 0 when it is not there
SharedWith(reference) ==
    IF "index" \in DOMAIN reference THEN reference.index
    ELSE IF "object" \in DOMAIN reference THEN reference.shares
    ELSE 0

(***************************************************************************)
(* The data of an imported file, after JSON.parse: NullObject, an object   *)
(* without questions, or [questions |-> the array].  A question of a file  *)
(* has the fields id, question_text, options and category, a missing one   *)
(* being Undefined (MissingOptions for options), and may have a            *)
(* difficulty.                                                             *)
(***************************************************************************)
\* the ids of the questions of the files
FileIds == {"1", "2"}

\* generateFirestoreId (script.js 436-470) returns a string of 20 letters
\* and digits, the letters of Date.now().toString(36) scattered among
\* letters drawn with Math.random; it compares the string with nothing, so
\* it may return a string it returned before.  The ids of the files of the
\* model are shorter, and are no string it returns.  The search of
\* applyFilters looks into the ids (script.js 580), so a string it returns
\* may hold the text searched for, in any case of its letters, or not hold
\* it: the strings of either kind, in the order in which the model has new
\* ones returned
GeneratedIds ==
    [other |->
        <<"g1", "g2", "g3", "g4", "g5", "g6", "g7", "g8", "g9", "g10", "g11",
          "g12">>,
     searched |->
        <<"ABCd1", "ABCd2", "ABCd3", "ABCd4", "ABCd5", "ABCd6", "ABCd7",
          "ABCd8", "ABCd9", "ABCd10", "ABCd11", "ABCd12">>]

GoodOptions == <<"a", "b", "c", "d">>

\* a question of a file
FileQuestion(id, text, options, category) ==
    [id |-> id, question_text |-> text, options |-> options,
     category |-> category]

\* a question of a file with a difficulty
FileQuestionOfLevel(id, text, options, category, difficulty) ==
    [id |-> id, question_text |-> text, options |-> options,
     category |-> category, difficulty |-> difficulty]

NoQuestionsData == [export_info |-> "x"]

\* the files of the model: two complete questions; two questions with the
\* same id, one of them without text; a question without id; a question
\* without options and one with a category of its own
ListedFiles ==
    {<<FileQuestion("1", "abcd", GoodOptions, Undefined),
       FileQuestion("2", "abcd", GoodOptions, Undefined)>>,
     <<FileQuestion("1", "abcd", GoodOptions, Undefined),
       FileQuestion("1", "", GoodOptions, Undefined)>>,
     <<FileQuestion(Undefined, "abcd", GoodOptions, Undefined)>>,
     <<FileQuestion("2", "abcd", MissingOptions, Undefined),
       FileQuestion("2", " ABCD", GoodOptions, "history")>>}

\* the data the checks of script.js 268-278 and 317-327 turn down: null, an
\* object without questions, an empty array of questions
InvalidData == {NullObject, NoQuestionsData, [questions |-> <<>>]}

FileData == InvalidData \cup {[questions |-> qs] : qs \in ListedFiles}

\* the check of script.js 276 and 325 for an empty array left out
IsValidData_EmptyAllowed(data) == "questions" \in DOMAIN data

\* the three checks of script.js 268-278 and 317-327 pass
IsValidData(data) ==
    /\ "questions" \in DOMAIN data
    /\ data.questions # <<>>

\* the ids of the questions of qs
IdsOf(qs) == {qs[k].id : k \in 1..Len(qs)}

\* the ids the state m holds anywhere: in this.questions, in the objects
\* this.filteredQuestions and this.selectedQuestionForSimilarity refer to, on
\* the cards of the page and in the local storage
HeldIds(m) ==
    IdsOf(m.questions)
        \cup {Deref(m.questions, m.filteredQuestions[n]).id :
                 n \in 1..Len(m.filteredQuestions)}
        \cup (IF m.selectedQuestionForSimilarity = NullObject THEN {}
              ELSE {Deref(m.questions, m.selectedQuestionForSimilarity).id})
        \cup {m.cards[n].id : n \in 1..Len(m.cards)}
        \cup (IF "questions" \in DOMAIN m.localStorage
              THEN IdsOf(m.localStorage.questions) ELSE {})

\* what one call of generateFirestoreId may return when known are the ids
\* held or returned so far: a string of known that is one of its strings, or
\* a new string of either kind
MayReturn(known) ==
    {id \in known :
        \E kind \in DOMAIN GeneratedIds :
            \E i \in 1..Len(GeneratedIds[kind]) : GeneratedIds[kind][i] = id}
        \cup {Head(SelectSeq(GeneratedIds[kind],
                             LAMBDA id : id \notin known)) :
                 kind \in DOMAIN GeneratedIds}

\* the results of calls more calls after the results generated, held being
\* the ids held before the calls
RECURSIVE GeneratedAfter(_, _, _)
GeneratedAfter(held, generated, calls) ==
    IF calls = 0 THEN {generated}
    ELSE UNION {GeneratedAfter(held, Append(generated, id), calls - 1) :
                   id \in MayReturn(
                              held \cup {generated[i] :
                                            i \in 1..Len(generated)})}

\* what calls calls of generateFirestoreId in a handler that starts in the
\* state m may return, in the order of the calls: each a string the state
\* holds or an earlier call returned, or a new one
generateFirestoreId(m, calls) == GeneratedAfter(HeldIds(m), <<>>, calls)

\* parseInt(q.difficulty) || 1 for a question q of a file
ParsedDifficulty(q) ==
    IF "difficulty" \in DOMAIN q /\ q.difficulty # 0 THEN q.difficulty ELSE 1

\* the object the callback of map builds for q (script.js 288-297) and the
\* loop of appendQuestions builds (script.js 364-373), with the id questionId
LoadedQuestion(q, questionId) ==
    [id |-> questionId,
     question_text |-> OrElse(q.question_text, ""),
     options |-> IF IsArray(q.options) THEN q.options ELSE DefaultOptions,
     category |-> OrElse(q.category, DefaultCategory),
     difficulty |-> ParsedDifficulty(q),
     _hasChanges |-> FALSE,
     _isDeleted |-> IF "_isDeleted" \in DOMAIN q THEN q._isDeleted ELSE FALSE]

\* how many of the first k questions of qs have no id
WithoutId(qs, k) == Cardinality({j \in 1..k : Falsy(qs[j].id)})

\* extractCategories (script.js 411-418): the categories of qs in the order
\* of their first occurrence
RECURSIVE AddCategories(_, _)
AddCategories(cats, qs) ==
    IF qs = <<>> THEN cats
    ELSE LET category == Head(qs).category
         IN  AddCategories(IF Falsy(category) \/ category \in Range(cats)
                           THEN cats ELSE Append(cats, category),
                           Tail(qs))

extractCategories(m) ==
    [m EXCEPT !.categories = AddCategories(<<>>, m.questions)]

\* updateCategoryFilter (script.js 472-500): the select is filled with the
\* categories and its value is set back; a value that is no option any more
\* leaves the select at its first option ''
updateCategoryFilter(m) ==
    [m EXCEPT !.categoryFilter =
        IF @ \in Range(m.categories) THEN @ ELSE ""]

\* the values of the inputs of the card renderQuestionCard (script.js
\* 707-786) builds for question: the selects show the option that is
\* selected, their first option when none is
Card(question, cats) ==
    [id |-> question.id,
     question_text |-> question.question_text,
     category |-> IF question.category \in Range(cats)
                  THEN question.category ELSE "",
     difficulty |-> IF question.difficulty \in 1..5
                    THEN question.difficulty ELSE 1,
     options |-> question.options,
     disabled |-> question._isDeleted]

\* renderQuestions (script.js 627-705): one card for each entry of
\* this.filteredQuestions
renderQuestions(m) ==
    [m EXCEPT !.cards =
        [n \in 1..Len(m.filteredQuestions) |->
            Card(Deref(m.questions, m.filteredQuestions[n]), m.categories)]]

\* s.includes(sub)
Includes(s, sub) ==
    \E i \in 1..(Len(s) - Len(sub) + 1) : SubSeq(s, i, i + Len(sub) - 1) = sub

\* { ...question, similarity: 100, isReference: true }
AsReference(question) ==
    [field \in DOMAIN question \cup {"similarity", "isReference"} |->
        IF field = "similarity" THEN 100 * 100
        ELSE IF field = "isReference" THEN TRUE
        ELSE question[field]]

\* the callback of the first filter of applyFilters (script.js 576-593);
\* the value '' of a select is 'all', and the difficulty filter is held as
\* the number parseInt gives, 0 for ''
MatchesFilters(question, searchQuery, category, difficulty) ==
    /\ \/ searchQuery = ""
       \/ Includes(toLowerCase(question.question_text), searchQuery)
       \/ Includes(toLowerCase(question.id), searchQuery)
       \/ \E k \in 1..Len(question.options) :
             Includes(toLowerCase(question.options[k]), searchQuery)
    /\ \/ category = ""
       \/ question.category = category
    /\ \/ difficulty = 0
       \/ question.difficulty = difficulty

\* the second part of applyFilters (script.js 595-616), for the positions
\* matching of the questions the first filter keeps and the selected question
\* target: references to the copies shown, sorted by similarity.  A name
\* bound in a one-element set names the value of the expression of that set.
SimilarFilter(qs, matching, target) ==
    CHOOSE result \in
        {LET Shown(k) ==
                 \/ qs[k].id = target.id
                 \/ \E i \in 1..Len(similarQuestions) :
                       similarQuestions[i].id = qs[k].id
             Copy(k) ==
                 IF qs[k].id = target.id THEN AsReference(qs[k])
                 ELSE LET found == CHOOSE i \in 1..Len(similarQuestions) :
                              /\ similarQuestions[i].id = qs[k].id
                              /\ \A j \in 1..(i - 1) :
                                    similarQuestions[j].id # qs[k].id
                      IN  WithSimilarity(qs[k],
                                         similarQuestions[found].similarity)
         IN  CHOOSE references \in
                 {[n \in 1..Len(sorted) |->
                      [object |-> Copy(sorted[n].position),
                       shares |-> sorted[n].position]] :
                     sorted \in
                         {sortBySimilarity(
                              [n \in 1..Len(shown) |->
                                  [similarity |-> Copy(shown[n]).similarity,
                                   position |-> shown[n]]]) :
                             shown \in {SelectSeq(matching, Shown)}}}
                 : TRUE :
            similarQuestions \in
                {findSimilarQuestionsForQuestion(qs, target, 70 * 100)}} : TRUE

\* applyFilters (script.js 571-625)
applyFilters(m) ==
    LET qs == m.questions
        selected == m.selectedQuestionForSimilarity
    IN  CHOOSE result \in
            {renderQuestions(
                 [m EXCEPT !.filteredQuestions =
                     IF m.showSimilarQuestions /\ selected # NullObject
                     THEN SimilarFilter(qs, matching, Deref(qs, selected))
                     ELSE [n \in 1..Len(matching) |->
                              [index |-> matching[n]]]]) :
                matching \in
                    {SelectSeq([k \in 1..Len(qs) |-> k],
                               LAMBDA k :
                                   MatchesFilters(
                                       qs[k],
                                       trim(toLowerCase(m.searchInput)),
                                       m.categoryFilter,
                                       m.difficultyFilter))}} : TRUE

\* saveData (script.js 1024-1046): the item holds this.questions as they are
StoredQuestions(qs) == [questions |-> qs]

saveData(m) == [m EXCEPT !.localStorage = StoredQuestions(m.questions)]

\* how many calls of generateFirestoreId loadQuestions makes for data: one
\* for each question without id (script.js 290)
LoadCalls(data) ==
    IF "questions" \in DOMAIN data
    THEN WithoutId(data.questions, Len(data.questions)) ELSE 0

\* loadQuestions (script.js 264-312) for data that passes its checks: the
\* question at position k without an id gets the result of one more call of
\* generateFirestoreId, generated holding the results of the calls
loadQuestions(m, data, generated) ==
    renderQuestions(updateCategoryFilter(extractCategories(
        [m EXCEPT
            !.questions =
                [k \in 1..Len(data.questions) |->
                    LoadedQuestion(
                        data.questions[k],
                        IF Falsy(data.questions[k].id)
                        THEN generated[WithoutId(data.questions, k)]
                        ELSE data.questions[k].id)],
            !.filteredQuestions = AllReferences(data.questions),
            !.selectedQuestionForSimilarity = Detached(m.questions, @)])))

\* text?.trim().toLowerCase() of script.js 331 and 356
DuplicateKey(text) ==
    IF text \in {Null, Undefined} THEN Undefined ELSE toLowerCase(trim(text))

\* the start of the loop of appendQuestions (script.js 329-335); calls counts
\* the calls of generateFirestoreId
AppendStart(qs) ==
    [questions |-> qs,
     existingIds |-> IdsOf(qs),
     existingTexts |-> {DuplicateKey(qs[k].question_text) : k \in 1..Len(qs)},
     appendedCount |-> 0, skippedCount |-> 0, duplicateCount |-> 0,
     calls |-> 0]

\* the id the loop gives newQuestion (script.js 349-353) after calls calls of
\* generateFirestoreId, and the number of calls after it
AppendedId(acc, newQuestion, generated) ==
    LET calls1 == acc.calls + (IF Falsy(newQuestion.id) THEN 1 ELSE 0)
        first == IF Falsy(newQuestion.id) THEN generated[calls1]
                 ELSE newQuestion.id
        calls2 == calls1 + (IF first \in acc.existingIds THEN 1 ELSE 0)
    IN  [id |-> IF first \in acc.existingIds THEN generated[calls2]
                ELSE first,
         calls |-> calls2]

\* the question is appended also when its text is a duplicate
AppendStep_NoDuplicateCheck(acc, newQuestion, generated) ==
    IF \/ Falsy(newQuestion.question_text)
       \/ ~IsArray(newQuestion.options)
    THEN [acc EXCEPT !.skippedCount = @ + 1]
    ELSE \* the id and the text key of the question
         LET questionId == AppendedId(acc, newQuestion, generated)
             normalizedText == DuplicateKey(newQuestion.question_text)
         IN  [acc EXCEPT
                !.questions =
                    Append(@, LoadedQuestion(newQuestion, questionId.id)),
                !.existingIds = @ \cup {questionId.id},
                !.existingTexts = @ \cup {normalizedText},
                !.appendedCount = @ + 1,
                !.calls = questionId.calls]

\* one pass of the loop of appendQuestions (script.js 338-380); generated
\* holds the results of the calls of generateFirestoreId
AppendStep(acc, newQuestion, generated) ==
    IF \/ Falsy(newQuestion.question_text)
       \/ ~IsArray(newQuestion.options)
    THEN [acc EXCEPT !.skippedCount = @ + 1]
    ELSE LET questionId == AppendedId(acc, newQuestion, generated)
             normalizedText == DuplicateKey(newQuestion.question_text)
         IN  IF normalizedText \in acc.existingTexts
             THEN [acc EXCEPT !.duplicateCount = @ + 1,
                              !.calls = questionId.calls]
             ELSE [acc EXCEPT
                     !.questions =
                         Append(@, LoadedQuestion(newQuestion,
                                                  questionId.id)),
                     !.existingIds = @ \cup {questionId.id},
                     !.existingTexts = @ \cup {normalizedText},
                     !.appendedCount = @ + 1,
                     !.calls = questionId.calls]

\* the loop from the question at position k of newQuestions on
RECURSIVE AppendLoop(_, _, _, _)
AppendLoop(acc, newQuestions, k, generated) ==
    IF k > Len(newQuestions) THEN acc
    ELSE AppendLoop(AppendStep(acc, newQuestions[k], generated),
                    newQuestions, k + 1, generated)

\* what the calls of generateFirestoreId may return that the loop makes from
\* the question at position k of newQuestions on, after the results
\* generated of the calls before, held being the ids held before the loop:
\* a pass makes no call, one or two (script.js 349-353)
RECURSIVE AppendGenerated(_, _, _, _, _)
AppendGenerated(held, acc, newQuestions, k, generated) ==
    IF k > Len(newQuestions) THEN {generated}
    ELSE LET made ==
                 {SubSeq(more, 1,
                         AppendStep(acc, newQuestions[k], more).calls) :
                     more \in GeneratedAfter(held, generated, 2)}
         IN  UNION {AppendGenerated(
                        held, AppendStep(acc, newQuestions[k], results),
                        newQuestions, k + 1, results) : results \in made}

\* what the calls of generateFirestoreId may return that appendQuestions
\* makes for newData in the state m, in the order of the calls
AppendCalls(m, newData) ==
    IF "questions" \in DOMAIN newData
    THEN AppendGenerated(HeldIds(m), AppendStart(m.questions),
                         newData.questions, 1, <<>>)
    ELSE {<<>>}

\* appendQuestions (script.js 314-409) for data that passes its checks,
\* generated holding the results of the calls of generateFirestoreId; ret
\* holds the three counts of the message of script.js 391-402
appendQuestions(m, newData, generated) ==
    CHOOSE result \in
        {renderQuestions(updateCategoryFilter(extractCategories(
             [m EXCEPT
                 !.questions = acc.questions,
                 !.filteredQuestions = AllReferences(acc.questions),
                 !.ret = [outcome |-> "appended",
                          appendedCount |-> acc.appendedCount,
                          skippedCount |-> acc.skippedCount,
                          duplicateCount |-> acc.duplicateCount]]))) :
            acc \in {AppendLoop(AppendStart(m.questions), newData.questions,
                                1, generated)}} : TRUE

\* the position of the first question of qs with the id questionId, 0 when
\* there is none: this.questions.findIndex(q => q.id === questionId) + 1
FirstWithId(qs, questionId) ==
    IF \A k \in 1..Len(qs) : qs[k].id # questionId THEN 0
    ELSE CHOOSE k \in 1..Len(qs) :
            /\ qs[k].id = questionId
            /\ \A j \in 1..(k - 1) : qs[j].id # questionId

\* addNewQuestion (script.js 809-834), generated holding the result of its
\* call of generateFirestoreId
addNewQuestion(m, generated) ==
    LET newQuestion ==
            [id |-> generated[1],
             question_text |-> NewQuestionText,
             options |-> NewQuestionOptions,
             category |-> IF m.categories = <<>> THEN DefaultCategory
                          ELSE m.categories[1],
             difficulty |-> 1,
             _hasChanges |-> TRUE,
             _isDeleted |-> FALSE]
    IN  applyFilters(updateCategoryFilter(extractCategories(saveData(
            [m EXCEPT
                !.questions = <<newQuestion>> \o @,
                !.filteredQuestions =
                    [n \in 1..Len(@) |-> Shifted(@[n])],
                !.selectedQuestionForSimilarity = Shifted(@)]))))

\* updateQuestionField (script.js 853-879)
updateQuestionField(m, questionId, field, value) ==
    LET k == FirstWithId(m.questions, questionId)
        changed == [m EXCEPT !.questions[k] =
                       [[@ EXCEPT ![field] = value]
                           EXCEPT !._hasChanges = TRUE]]
    IN  IF k = 0 THEN m
        ELSE IF field \in {"category", "difficulty"}
        THEN renderQuestions(updateCategoryFilter(extractCategories(changed)))
        ELSE changed

\* a reference after question.options[optionIndex] = value has been done for
\* the question at position k: an object that holds the options array of that
\* question shows the new value too
OptionWritten(reference, k, optionIndex, value) ==
    IF "object" \in DOMAIN reference /\ reference.shares = k
    THEN [reference EXCEPT !.object.options[optionIndex + 1] = value]
    ELSE reference

\* updateQuestionOption (script.js 881-896)
updateQuestionOption(m, questionId, optionIndex, value) ==
    LET k == FirstWithId(m.questions, questionId)
    IN  IF k = 0 THEN m
        ELSE [m EXCEPT
                !.questions[k] =
                    [@ EXCEPT !.options[optionIndex + 1] = value,
                              !._hasChanges = TRUE],
                !.filteredQuestions =
                    [n \in 1..Len(@) |->
                        OptionWritten(@[n], k, optionIndex, value)],
                !.selectedQuestionForSimilarity =
                    OptionWritten(@, k, optionIndex, value)]

\* markQuestionAsModified (script.js 836-851)
markQuestionAsModified(m, questionId) ==
    LET k == FirstWithId(m.questions, questionId)
    IN  IF k = 0 THEN m
        ELSE renderQuestions(updateCategoryFilter(extractCategories(
                 [m EXCEPT !.questions[k]._hasChanges = TRUE])))

\* undeleteQuestion (script.js 1007-1022)
undeleteQuestion(m, questionId) ==
    LET k == FirstWithId(m.questions, questionId)
    IN  IF k = 0 THEN m
        ELSE renderQuestions(
                 [m EXCEPT !.questions[k] =
                     [@ EXCEPT !._isDeleted = FALSE, !._hasChanges = TRUE]])

\* deleteQuestion without the branch of script.js 990-994: a marked question
\* stays marked
deleteQuestion_NoToggle(m, questionId) ==
    LET k == FirstWithId(m.questions, questionId)
    IN  IF k = 0 THEN m
        ELSE renderQuestions(
                 [m EXCEPT !.questions[k] =
                     [@ EXCEPT !._isDeleted = TRUE, !._hasChanges = TRUE]])

\* deleteQuestion (script.js 984-1005)
deleteQuestion(m, questionId) ==
    LET k == FirstWithId(m.questions, questionId)
    IN  IF k = 0 THEN m
        ELSE IF m.questions[k]._isDeleted
        THEN undeleteQuestion(m, questionId)
        ELSE renderQuestions(
                 [m EXCEPT !.questions[k] =
                     [@ EXCEPT !._isDeleted = TRUE, !._hasChanges = TRUE]])

(***************************************************************************)
(* saveToCurrentFile (script.js 898-980).  document.querySelector finds    *)
(* the first card with the id asked for, and the values of its inputs are  *)
(* what the page showed at the last render or what was typed since.        *)
(***************************************************************************)
\* the position of the first card with the id questionId, 0 when the page
\* shows none
CardOf(shown, questionId) ==
    IF \A n \in 1..Len(shown) : shown[n].id # questionId THEN 0
    ELSE CHOOSE n \in 1..Len(shown) :
            /\ shown[n].id = questionId
            /\ \A j \in 1..(n - 1) : shown[j].id # questionId

\* the form of a card is read into the question (script.js 909-929)
IsRead(shown, question) ==
    ~question._isDeleted /\ CardOf(shown, question.id) # 0

\* the question after the form of its card has been read into it
ReadForm(shown, question) ==
    LET card == shown[CardOf(shown, question.id)]
    IN  IF ~IsRead(shown, question) THEN question
        ELSE [question EXCEPT
                !.question_text = trim(card.question_text),
                !.category = card.category,
                !.difficulty = card.difficulty,
                !.options = [i \in 1..Len(card.options) |->
                                trim(card.options[i])]]

\* the checks of script.js 932-942 fail for the question
IsInvalid(shown, question) ==
    /\ IsRead(shown, question)
    /\ \/ Falsy(question.question_text)
       \/ Falsy(question.category)
       \/ Len(question.options) # 4
       \/ \E i \in 1..Len(question.options) : Falsy(question.options[i])
       \/ Cardinality(Range(question.options)) # 4

\* a reference once the questions of qs whose form was read have got a new
\* options array (script.js 929): a copy holds the array they had before
AfterRead(qs, shown, reference) ==
    IF /\ "object" \in DOMAIN reference
       /\ reference.shares # 0
       /\ IsRead(shown, qs[reference.shares])
    THEN [reference EXCEPT !.shares = 0]
    ELSE reference

\* a reference once the deleted questions of qs have left this.questions
AfterRemoval(qs, reference) ==
    IF "index" \in DOMAIN reference
    THEN IF qs[reference.index]._isDeleted
         THEN [object |-> qs[reference.index], shares |-> 0]
         ELSE [index |-> Cardinality({k \in 1..reference.index :
                                         ~qs[k]._isDeleted})]
    ELSE IF "object" \in DOMAIN reference /\ reference.shares # 0
    THEN [reference EXCEPT !.shares =
             IF qs[@]._isDeleted THEN 0
             ELSE Cardinality({k \in 1..@ : ~qs[k]._isDeleted})]
    ELSE reference

saveToCurrentFile(m) ==
    LET read == [k \in 1..Len(m.questions) |->
                    ReadForm(m.cards, m.questions[k])]
        invalidQuestions ==
            {k \in 1..Len(read) : IsInvalid(m.cards, read[k])}
        kept == SelectSeq(read, LAMBDA q : ~q._isDeleted)
        validated ==
            [m EXCEPT
                !.questions = read,
                !.filteredQuestions =
                    [n \in 1..Len(@) |-> AfterRead(m.questions, m.cards, @[n])],
                !.selectedQuestionForSimilarity =
                    AfterRead(m.questions, m.cards, @)]
    IN  IF invalidQuestions # {}
        THEN [validated EXCEPT !.ret = "invalid"]
        ELSE renderQuestions(updateCategoryFilter(extractCategories(saveData(
                 [validated EXCEPT
                     !.questions =
                         [k \in 1..Len(kept) |->
                             [kept[k] EXCEPT !._hasChanges = FALSE]],
                     !.filteredQuestions =
                         [n \in 1..Len(@) |-> AfterRemoval(read, @[n])],
                     !.selectedQuestionForSimilarity =
                         AfterRemoval(read, @),
                     !.ret = "saved"]))))

\* findSimilarQuestions (script.js 542-563)
findSimilarQuestions(m, questionId) ==
    LET k == FirstWithId(m.questions, questionId)
        selected == m.selectedQuestionForSimilarity
    IN  IF k = 0 THEN m
        ELSE IF /\ m.showSimilarQuestions
                /\ selected # NullObject
                /\ Deref(m.questions, selected).id = questionId
        THEN applyFilters([m EXCEPT
                              !.showSimilarQuestions = FALSE,
                              !.selectedQuestionForSimilarity = NullObject])
        ELSE applyFilters([m EXCEPT
                              !.showSimilarQuestions = TRUE,
                              !.selectedQuestionForSimilarity =
                                  [index |-> k]])

\* clearSimilaritySelection (script.js 565-569)
clearSimilaritySelection(m) ==
    applyFilters([m EXCEPT !.selectedQuestionForSimilarity = NullObject])

\* the state of a new manager on a new page (script.js 14-25) with the
\* local storage of m
Constructed(m) ==
    [questions |-> <<>>,
     filteredQuestions |-> <<>>,
     categories |-> <<>>,
     showSimilarQuestions |-> FALSE,
     selectedQuestionForSimilarity |-> NullObject,
     localStorage |-> m.localStorage,
     searchInput |-> "",
     categoryFilter |-> "",
     difficultyFilter |-> 0,
     cards |-> <<>>,
     reading |-> {},
     ret |-> Undefined]

\* init (script.js 27-46): the stored questions are loaded, if there are any
init(m, generated) ==
    IF IsValidData(m.localStorage)
    THEN loadQuestions(m, m.localStorage, generated)
    ELSE m

\* the callback reader.onload of handleFileImport (script.js 180-195) for
\* the parsed text data
importOnload(m, data, generated) ==
    IF ~IsValidData(data) THEN [m EXCEPT !.ret = "threw"]
    ELSE [loadQuestions(m, data, generated) EXCEPT
             !.localStorage = [questions |-> data.questions],
             !.ret = "loaded"]

\* the callback reader.onload of handleFileAppend (script.js 226-251) for
\* the parsed text newData
appendOnload(m, newData, generated) ==
    IF ~IsValidData(newData) THEN [m EXCEPT !.ret = [outcome |-> "threw"]]
    ELSE saveData(appendQuestions(m, newData, generated))

(***************************************************************************)
(* The steps of the program: the calls of the methods and the listeners    *)
(* of the page.  A handler runs to its end before the next one starts.     *)
(***************************************************************************)
Init ==
    /\ questions = <<>>
    /\ op = "none"
    /\ arg1 = Null
    /\ arg2 = Null
    /\ ret = Null
    /\ constructorFields

\* handleFileImport (script.js 169-207) for a file whose text parses to one
\* of files: the read of the file is started, at most MaxReading reads being
\* under way
HandleFileImport(files) ==
    \E data \in files :
        /\ Cardinality(reading) < MaxReading
        /\ op' = "handleFileImport"
        /\ arg1' = data
        /\ arg2' = Null
        /\ ret' = Undefined
        /\ reading' = reading \cup {[kind |-> "import", data |-> data]}
        /\ UNCHANGED <<questions, filteredQuestions, categories,
                       showSimilarQuestions, selectedQuestionForSimilarity,
                       localStorage, searchInput, categoryFilter,
                       difficultyFilter, cards>>

\* a read started by handleFileImport ends: reader.onload (script.js
\* 180-195)
ImportOnload ==
    \E read \in reading :
        /\ read.kind = "import"
        /\ op' = "handleFileImport.onload"
        /\ arg1' = read.data
        /\ arg2' = Null
        /\ \E before \in {[State EXCEPT !.reading = @ \ {read}]} :
              \E generated \in
                      generateFirestoreId(before, LoadCalls(read.data)) :
                  \E m \in {importOnload(before, read.data, generated)} :
                      Becomes(m)

\* handleFileAppend (script.js 209-262) for a file whose text parses to one
\* of files: the rejection of line 219, or the read of the file is started
HandleFileAppend(files) ==
    \E newData \in files :
        /\ Cardinality(reading) < MaxReading
        /\ op' = "handleFileAppend"
        /\ arg1' = newData
        /\ arg2' = Null
        /\ ret' = IF Len(questions) = 0 THEN [outcome |-> "rejected"]
                  ELSE [outcome |-> "reading"]
        /\ reading' = IF Len(questions) = 0 THEN reading
                      ELSE reading \cup {[kind |-> "append",
                                          data |-> newData]}
        /\ UNCHANGED <<questions, filteredQuestions, categories,
                       showSimilarQuestions, selectedQuestionForSimilarity,
                       localStorage, searchInput, categoryFilter,
                       difficultyFilter, cards>>

\* a read started by handleFileAppend ends: reader.onload (script.js
\* 226-251); the collection is kept within most questions.  ret is what the
\* toasts tell: the error of line 248, or the three counts of the message of
\* script.js 391-402.
AppendOnload(most) ==
    \E read \in reading :
        /\ read.kind = "append"
        /\ op' = "handleFileAppend.onload"
        /\ arg1' = read.data
        /\ arg2' = Null
        /\ \E before \in {[State EXCEPT !.reading = @ \ {read}]} :
              \E generated \in AppendCalls(before, read.data) :
                  \E m \in {appendOnload(before, read.data, generated)} :
                      /\ Len(m.questions) <= most
                      /\ Becomes(m)

\* addNewQuestion (script.js 809-834); the collection is kept within most
\* questions
AddNewQuestion(most) ==
    /\ Len(questions) < most
    /\ op' = "addNewQuestion"
    /\ arg1' = Null
    /\ arg2' = Null
    /\ \E generated \in generateFirestoreId(State, 1) :
          \E m \in {addNewQuestion(State, generated)} : Becomes(m)

\* the listener of the category select of a card that is not disabled
\* (script.js 686-691): an option of the select, '' or a category, that is
\* among values is chosen on a card of a question id of ids; the select
\* holds it when updateQuestionField is called, and keeps it when that call
\* renders nothing
CategorySelectChange(ids, values) ==
    \E n \in 1..Len(cards),
       value \in values \cap ({""} \cup Range(categories)) :
        /\ cards[n].id \in ids
        /\ ~cards[n].disabled
        /\ op' = "updateQuestionField"
        /\ arg1' = cards[n].id
        /\ arg2' = <<"category", value>>
        /\ \E m \in {updateQuestionField(
                         [State EXCEPT !.cards[n].category = value],
                         cards[n].id, "category", value)} : Becomes(m)

\* the listener of the difficulty select of a card that is not disabled
\* (script.js 679-684): a level of levels is chosen on a card of a question
\* id of ids, and parseInt of it is passed on
DifficultySelectChange(ids, levels) ==
    \E n \in 1..Len(cards), value \in levels \cap 1..5 :
        /\ cards[n].id \in ids
        /\ ~cards[n].disabled
        /\ op' = "updateQuestionField"
        /\ arg1' = cards[n].id
        /\ arg2' = <<"difficulty", value>>
        /\ \E m \in {updateQuestionField(
                         [State EXCEPT !.cards[n].difficulty = value],
                         cards[n].id, "difficulty", value)} : Becomes(m)

\* a call of updateQuestionOption with a question id of ids: the value "a"
\* for the second option
UpdateQuestionOption(ids) ==
    \E questionId \in ids :
        /\ op' = "updateQuestionOption"
        /\ arg1' = questionId
        /\ arg2' = <<1, "a">>
        /\ \E m \in {updateQuestionOption(State, questionId, 1, "a")} :
              Becomes(m)

\* the listener of the textarea of a card that is not disabled (script.js
\* 664-669): a text of texts is typed
QuestionTextInput(texts) ==
    \E n \in 1..Len(cards), value \in texts :
        /\ ~cards[n].disabled
        /\ op' = "updateQuestionField"
        /\ arg1' = cards[n].id
        /\ arg2' = <<"question_text", value>>
        /\ \E m \in {updateQuestionField(
                         [State EXCEPT !.cards[n].question_text = value],
                         cards[n].id, "question_text", value)} : Becomes(m)

\* the listener of the option inputs of a card that is not disabled
\* (script.js 671-677): a text of texts is typed as the second option
OptionInput(texts) ==
    \E n \in 1..Len(cards), value \in texts :
        /\ ~cards[n].disabled
        /\ op' = "updateQuestionOption"
        /\ arg1' = cards[n].id
        /\ arg2' = <<1, value>>
        /\ \E m \in {updateQuestionOption(
                         [State EXCEPT !.cards[n].options[2] = value],
                         cards[n].id, 1, value)} : Becomes(m)

\* a call of markQuestionAsModified with a question id of ids
MarkQuestionAsModified(ids) ==
    \E questionId \in ids :
        /\ op' = "markQuestionAsModified"
        /\ arg1' = questionId
        /\ arg2' = Null
        /\ \E m \in {markQuestionAsModified(State, questionId)} : Becomes(m)

\* a call of deleteQuestion with a question id of ids
DeleteQuestion(ids) ==
    \E questionId \in ids :
        /\ op' = "deleteQuestion"
        /\ arg1' = questionId
        /\ arg2' = Null
        /\ \E m \in {deleteQuestion(State, questionId)} : Becomes(m)

\* a call of undeleteQuestion with a question id of ids
UndeleteQuestion(ids) ==
    \E questionId \in ids :
        /\ op' = "undeleteQuestion"
        /\ arg1' = questionId
        /\ arg2' = Null
        /\ \E m \in {undeleteQuestion(State, questionId)} : Becomes(m)

\* a click on the save button (script.js 898-980)
SaveToCurrentFile ==
    /\ op' = "saveToCurrentFile"
    /\ arg1' = Null
    /\ arg2' = Null
    /\ \E m \in {saveToCurrentFile(State)} : Becomes(m)

\* a call of findSimilarQuestions with a question id of ids
FindSimilarQuestions(ids) ==
    \E questionId \in ids :
        /\ op' = "findSimilarQuestions"
        /\ arg1' = questionId
        /\ arg2' = Null
        /\ \E m \in {findSimilarQuestions(State, questionId)} : Becomes(m)

ClearSimilaritySelection ==
    /\ op' = "clearSimilaritySelection"
    /\ arg1' = Null
    /\ arg2' = Null
    /\ \E m \in {clearSimilaritySelection(State)} : Becomes(m)

\* what is typed into the search box
SearchInputs == {"", "abcd"}

\* the listener of searchInput (script.js 135-137, 530-532): applyFilters
\* with the new value of the box
HandleSearch ==
    \E query \in SearchInputs :
        /\ op' = "handleSearch"
        /\ arg1' = query
        /\ arg2' = Null
        /\ \E m \in {applyFilters([State EXCEPT !.searchInput = query])} :
              Becomes(m)

\* the listener of categoryFilter (script.js 139-141, 534-536): an option
\* of the select is chosen, '' or a category
HandleCategoryFilter ==
    \E value \in {""} \cup Range(categories) :
        /\ op' = "handleCategoryFilter"
        /\ arg1' = value
        /\ arg2' = Null
        /\ \E m \in {applyFilters([State EXCEPT !.categoryFilter = value])} :
              Becomes(m)

\* the options of the select difficultyFilter the model chooses: all, 1, 3
DifficultyLevels == {0, 1, 3}

\* the listener of difficultyFilter (script.js 143-145, 538-540)
HandleDifficultyFilter ==
    \E value \in DifficultyLevels :
        /\ op' = "handleDifficultyFilter"
        /\ arg1' = value
        /\ arg2' = Null
        /\ \E m \in {applyFilters([State EXCEPT !.difficultyFilter = value])} :
              Becomes(m)

\* the page loaded again: a new manager (script.js 14-25, 1121-1123) whose
\* init (script.js 27-46) loads the stored questions, if there are any
Reload ==
    /\ op' = "constructor"
    /\ arg1' = Null
    /\ arg2' = Null
    /\ \E before \in {Constructed(State)} :
          \E generated \in
                  generateFirestoreId(before,
                                      LoadCalls(before.localStorage)) :
              \E m \in {init(before, generated)} : Becomes(m)

\* findSimilarQuestionsForQuestion writing the similarity into the questions
\* of the collection instead of into copies of them
FindSimilarQuestionsForQuestion_InPlace ==
    \E targetQuestion \in Range(questions)
                            \cup {NullObject,
                                  [id |-> "3", question_text |-> "abcd"]},
       threshold \in {0, 70 * 100} :
        /\ op' = "findSimilarQuestionsForQuestion"
        /\ arg1' = targetQuestion
        /\ arg2' = threshold
        /\ ret' = findSimilarQuestionsForQuestion(questions, targetQuestion,
                                                  threshold)
        /\ questions' =
               [k \in 1..Len(questions) |->
                   IF \E n \in 1..Len(ret') : ret'[n].id = questions[k].id
                   THEN WithSimilarity(
                            questions[k],
                            ret'[CHOOSE n \in 1..Len(ret') :
                                     ret'[n].id = questions[k].id].similarity)
                   ELSE questions[k]]
        /\ UNCHANGED managerVars

\* a call of findSimilarQuestionsForQuestion (script.js 93-109) with a
\* question of the collection, a question that is not in it, or null
FindSimilarQuestionsForQuestion ==
    \E targetQuestion \in Range(questions)
                            \cup {NullObject,
                                  [id |-> "3", question_text |-> "abcd"]},
       threshold \in {0, 70 * 100} :
        /\ op' = "findSimilarQuestionsForQuestion"
        /\ arg1' = targetQuestion
        /\ arg2' = threshold
        /\ ret' = findSimilarQuestionsForQuestion(questions, targetQuestion,
                                                  threshold)
        /\ UNCHANGED <<questions, managerVars>>

(***************************************************************************)
(* The similarity engine called on the collection of a manager in any      *)
(* similarity mode.                                                        *)
(***************************************************************************)
NextFrame ==
    \/ HandleFileImport(FileData)
    \/ ImportOnload
    \/ FindSimilarQuestions(FileIds)
    \/ ClearSimilaritySelection
    \/ FindSimilarQuestionsForQuestion

SpecFrame == Init /\ [][NextFrame]_vars

\* C13: a call of findSimilarQuestionsForQuestion leaves the collection (its
\* questions, their order and their fields) and the other fields of the
\* manager as they were, and every entry it returns is a copy: a question of
\* the collection with a similarity the question itself does not get.
C13_SideEffectFree ==
    [][op' = "findSimilarQuestionsForQuestion"
          => /\ UNCHANGED <<questions, managerVars>>
             /\ \A n \in 1..Len(ret') :
                    \E k \in 1..Len(questions') :
                        /\ "similarity" \notin DOMAIN questions'[k]
                        /\ ret'[n] = WithSimilarity(questions'[k],
                                                    ret'[n].similarity)]_vars

C13_Witness ==
    /\ op = "findSimilarQuestionsForQuestion"
    /\ Len(ret) = 1
    /\ Len(questions) = 2
    /\ showSimilarQuestions
    /\ selectedQuestionForSimilarity # NullObject
    /\ \E k \in 1..2 : arg1 = questions[k]

(***************************************************************************)
(* The operations that put questions into the collection.                  *)
(***************************************************************************)
NextIds ==
    \/ HandleFileImport(FileData)
    \/ ImportOnload
    \/ HandleFileAppend(FileData)
    \/ AppendOnload(MaxQuestions)
    \/ AddNewQuestion(MaxQuestions)
    \/ Reload

SpecIds == Init /\ [][NextIds]_vars

\* C19: after any sequence of imports, appends and added questions, the
\* questions of the collection have pairwise distinct ids.
C19_DistinctIds ==
    \A i, j \in 1..Len(questions) :
        i # j => questions[i].id # questions[j].id

(***************************************************************************)
(* The similarity mode under the operations that set it, filter with it    *)
(* and edit the questions.                                                 *)
(***************************************************************************)
\* the question edited
StoreIds == {"1"}

\* the files imported: no data, and two questions with similar texts, the
\* second with a category and a difficulty of its own
ModeImports ==
    {NullObject,
     [questions |-> <<FileQuestion("1", "abcd", GoodOptions, Undefined),
                      FileQuestionOfLevel("2", " ABCD", GoodOptions,
                                          "history", 3)>>]}

NextMode ==
    \/ HandleFileImport(ModeImports)
    \/ ImportOnload
    \/ DeleteQuestion(StoreIds)
    \/ UpdateQuestionOption(StoreIds)
    \/ FindSimilarQuestions(FileIds)
    \/ ClearSimilaritySelection
    \/ HandleCategoryFilter
    \/ HandleDifficultyFilter

SpecMode == Init /\ [][NextMode]_vars

\* C20: whenever showSimilarQuestions is true, a question is selected for
\* similarity.
C20_ShowImpliesSelected ==
    showSimilarQuestions => selectedQuestionForSimilarity # NullObject

(***************************************************************************)
(* The operations that change the collection or a question, and what they  *)
(* leave in local storage.                                                 *)
(***************************************************************************)
\* the files imported and appended
StoreImports ==
    {NullObject,
     [questions |->
         <<FileQuestion("1", "abcd", GoodOptions, DefaultCategory)>>]}

StoreAppends ==
    {NoQuestionsData,
     [questions |->
         <<FileQuestion("2", "abcx", GoodOptions, DefaultCategory)>>]}

NextStore ==
    \/ HandleFileImport(StoreImports)
    \/ ImportOnload
    \/ HandleFileAppend(StoreAppends)
    \/ AppendOnload(MaxQuestions)
    \/ AddNewQuestion(MaxQuestions)
    \/ QuestionTextInput({"abcx"})
    \/ CategorySelectChange(StoreIds, {""})
    \/ DifficultySelectChange(StoreIds, {3})
    \/ UpdateQuestionOption(StoreIds)
    \/ DeleteQuestion(StoreIds)
    \/ UndeleteQuestion(StoreIds)
    \/ SaveToCurrentFile

SpecStore == Init /\ [][NextStore]_vars

\* what of a question is compared between memory and storage: its id, text,
\* options, category and difficulty, and whether it is marked deleted
Persisted(q) ==
    [id |-> q.id, question_text |-> q.question_text, options |-> q.options,
     category |-> q.category,
     difficulty |-> IF "difficulty" \in DOMAIN q THEN q.difficulty ELSE 1,
     deleted |-> IF "_isDeleted" \in DOMAIN q THEN q._isDeleted ELSE FALSE]

\* C18: after the load of an imported file, the load of an appended file,
\* addNewQuestion, updateQuestionField, updateQuestionOption, deleteQuestion,
\* undeleteQuestion or saveToCurrentFile, the questions stored in local
\* storage are the questions held in memory.
C18_StorageMirrorsMemory ==
    op \in {"handleFileImport.onload", "handleFileAppend.onload",
            "addNewQuestion", "updateQuestionField", "updateQuestionOption",
            "deleteQuestion", "undeleteQuestion", "saveToCurrentFile"}
        => IF localStorage = NullObject
           THEN questions = <<>>
           ELSE /\ Len(localStorage.questions) = Len(questions)
                /\ \A k \in 1..Len(questions) :
                       Persisted(localStorage.questions[k])
                           = Persisted(questions[k])

(***************************************************************************)
(* Imports and appends of valid and invalid files, with a search in        *)
(* between so that filteredQuestions is not always the whole collection,   *)
(* and with deletions and saves, which can empty the collection while a    *)
(* file is being read.                                                     *)
(***************************************************************************)
MaxHeld == 4    \* most questions the collection holds after an append

\* the files imported: the invalid ones, a complete question, and a
\* question without id
AppendImports ==
    InvalidData
        \cup {[questions |->
                  <<FileQuestion("1", "abcd", GoodOptions, Undefined)>>],
              [questions |->
                  <<FileQuestion(Undefined, "abcd", GoodOptions,
                                 Undefined)>>]}

\* the files appended: the invalid ones, a file with a question without
\* options, and a file of three questions of which the second has the text
\* of the first in other case and spacing
AppendFiles ==
    InvalidData
        \cup {[questions |->
                  <<FileQuestion("2", "abcd", MissingOptions, Undefined),
                    FileQuestion("2", " ABCD", GoodOptions, "history")>>],
              [questions |->
                  <<FileQuestion(Undefined, "abcx", GoodOptions, Undefined),
                    FileQuestion("1", "ABCX ", GoodOptions, Undefined),
                    FileQuestionOfLevel("2", "x", GoodOptions, "history",
                                        3)>>]}

NextAppend ==
    \/ HandleFileImport(AppendImports)
    \/ ImportOnload
    \/ HandleFileAppend(AppendFiles)
    \/ AppendOnload(MaxHeld)
    \/ DeleteQuestion(StoreIds)
    \/ SaveToCurrentFile
    \/ HandleSearch

SpecAppend == Init /\ [][NextAppend]_vars

\* C23: the load of an imported or an appended file with invalid data (no
\* object, no questions array, an empty questions array) throws and leaves
\* questions, filteredQuestions and categories as they were; handleFileAppend
\* with an empty collection rejects the file and changes nothing.
C23_InvalidDataChangesNothing ==
    [][/\ (op' = "handleFileImport.onload" /\ arg1' \in InvalidData)
           => /\ UNCHANGED <<questions, filteredQuestions, categories>>
              /\ ret' = "threw"
       /\ (op' = "handleFileAppend" /\ questions = <<>>)
           => /\ UNCHANGED <<questions, managerVars>>
              /\ ret'.outcome = "rejected"
       /\ (op' = "handleFileAppend.onload" /\ arg1' \in InvalidData)
           => /\ UNCHANGED <<questions, filteredQuestions, categories>>
              /\ ret'.outcome = "threw"]_vars

\* an import of invalid data into a collection of which the search shows
\* only a part
C23_Witness ==
    /\ op = "handleFileImport.onload"
    /\ ret = "threw"
    /\ Len(questions) > 1
    /\ Len(filteredQuestions) = 1

\* an append of invalid data
C23_WitnessAppend ==
    /\ op = "handleFileAppend.onload"
    /\ ret.outcome = "threw"
    /\ Len(questions) > 1
    /\ Len(filteredQuestions) = 1

\* an append to an empty collection
C23_WitnessRejected ==
    /\ op = "handleFileAppend"
    /\ ret.outcome = "rejected"
    /\ arg1 \notin InvalidData

\* C24: the load of a valid appended file keeps the questions held in place;
\* each incoming question is counted once, as appended, skipped (no text or
\* no options) or duplicate; the collection grows by the appended count; and
\* an appended question differs, in its trimmed lower-case text, from every
\* question before it in the collection.
C24_AppendAccounting ==
    [][(op' = "handleFileAppend.onload" /\ arg1' \notin InvalidData)
          => LET incoming == arg1'.questions
                 held == Len(questions)
             IN  /\ ret'.outcome = "appended"
                 /\ ret'.appendedCount + ret'.skippedCount
                        + ret'.duplicateCount = Len(incoming)
                 /\ ret'.skippedCount =
                        Cardinality({k \in 1..Len(incoming) :
                            \/ Falsy(incoming[k].question_text)
                            \/ ~IsArray(incoming[k].options)})
                 /\ Len(questions') = held + ret'.appendedCount
                 /\ SubSeq(questions', 1, held) = questions
                 /\ \A k \in (held + 1)..Len(questions') :
                        \A j \in 1..(k - 1) :
                            DuplicateKey(questions'[k].question_text)
                                # DuplicateKey(questions'[j].question_text)]_vars

\* an append of three questions: one appended, one a duplicate of it, one
\* appended
C24_Witness ==
    /\ op = "handleFileAppend.onload"
    /\ ret.outcome = "appended"
    /\ ret.appendedCount = 2
    /\ ret.duplicateCount = 1
    /\ Len(questions) = 3

\* an append to a collection that a save has emptied since the file was
\* chosen
C24_WitnessEmptied ==
    /\ op = "handleFileAppend.onload"
    /\ ret.outcome = "appended"
    /\ ret.appendedCount = Len(questions)
    /\ ret.appendedCount > 0

\* an append with a skipped question
C24_WitnessSkipped ==
    /\ op = "handleFileAppend.onload"
    /\ ret.outcome = "appended"
    /\ ret.skippedCount = 1

(***************************************************************************)
(* Marking questions deleted, and saving with valid and invalid forms.     *)
(***************************************************************************)
\* the files imported: no data, two complete questions, and a question
\* without options (its four empty options make the form invalid)
RemovalImports ==
    {NullObject,
     [questions |-> <<FileQuestion("1", "abcd", GoodOptions, Undefined),
                      FileQuestion("2", "abcd", GoodOptions, Undefined)>>],
     [questions |-> <<FileQuestion("2", "abcd", MissingOptions, Undefined),
                      FileQuestion("2", " ABCD", GoodOptions, "history")>>]}

NextRemoval ==
    \/ HandleFileImport(RemovalImports)
    \/ ImportOnload
    \/ DeleteQuestion(FileIds)
    \/ UndeleteQuestion(FileIds)
    \/ UpdateQuestionOption(FileIds)
    \/ QuestionTextInput({"abcx"})
    \/ OptionInput({"a"})
    \/ MarkQuestionAsModified(FileIds)
    \/ SaveToCurrentFile
    \/ HandleSearch

SpecRemoval == Init /\ [][NextRemoval]_vars

\* the questions held before the step that are not marked deleted
C22_Unmarked == SelectSeq(questions, LAMBDA q : ~q._isDeleted)

\* C22: deleteQuestion and undeleteQuestion change only the mark _isDeleted
\* of the question asked for (deleteQuestion of a marked question unmarks
\* it) and set its _hasChanges; a saveToCurrentFile that finds an invalid
\* question removes no question, clears no flag and leaves local storage
\* alone; a saveToCurrentFile that succeeds removes exactly the marked
\* questions and clears _hasChanges of the others; every other step but a
\* successful import keeps all questions.
C22_RemovalOnlyBySave ==
    [][/\ op' \in {"deleteQuestion", "undeleteQuestion"}
           => LET k == FirstWithId(questions, arg1')
              IN  IF k = 0 THEN questions' = questions
                  ELSE questions' =
                          [questions EXCEPT ![k] =
                              [@ EXCEPT
                                  !._isDeleted =
                                      IF op' = "deleteQuestion"
                                      THEN ~questions[k]._isDeleted
                                      ELSE FALSE,
                                  !._hasChanges = TRUE]]
       /\ (op' = "saveToCurrentFile" /\ ret' = "invalid")
           => /\ Len(questions') = Len(questions)
              /\ \A k \in 1..Len(questions) :
                     /\ questions'[k].id = questions[k].id
                     /\ questions'[k]._isDeleted = questions[k]._isDeleted
                     /\ questions'[k]._hasChanges = questions[k]._hasChanges
              /\ localStorage' = localStorage
       /\ (op' = "saveToCurrentFile" /\ ret' = "saved")
           => /\ Len(questions') = Len(C22_Unmarked)
              /\ \A k \in 1..Len(questions') :
                     /\ questions'[k].id = C22_Unmarked[k].id
                     /\ ~questions'[k]._isDeleted
                     /\ ~questions'[k]._hasChanges
       /\ (\/ op' \in {"updateQuestionOption", "updateQuestionField",
                       "markQuestionAsModified", "handleSearch",
                       "handleFileImport"}
           \/ op' = "handleFileImport.onload" /\ ret' = "threw")
           => /\ Len(questions') = Len(questions)
              /\ \A k \in 1..Len(questions) :
                     questions'[k].id = questions[k].id]_vars

\* a successful save has removed a marked question and kept the other
C22_Witness ==
    /\ op = "saveToCurrentFile"
    /\ ret = "saved"
    /\ Len(questions) = 1
    /\ localStorage = StoredQuestions(questions)

\* a save with an invalid question, with a question marked deleted and
\* changes not saved
C22_WitnessInvalid ==
    /\ op = "saveToCurrentFile"
    /\ ret = "invalid"
    /\ \E k \in 1..Len(questions) : questions[k]._isDeleted
    /\ \E k \in 1..Len(questions) :
          ~questions[k]._isDeleted /\ questions[k]._hasChanges

\* deleteQuestion of a marked question has unmarked it
C22_WitnessToggle ==
    /\ op = "deleteQuestion"
    /\ \E k \in 1..Len(questions) :
          /\ questions[k].id = arg1
          /\ ~questions[k]._isDeleted
          /\ questions[k]._hasChanges

(***************************************************************************)
(* The question selected for similarity under imports, appends, edits,     *)
(* deletions and saves.                                                    *)
(***************************************************************************)
SelectionImports ==
    {NullObject,
     [questions |-> <<FileQuestion("1", "abcd", GoodOptions, Undefined),
                      FileQuestion("2", "abcd", GoodOptions, Undefined)>>]}

NextSelection ==
    \/ HandleFileImport(SelectionImports)
    \/ ImportOnload
    \/ HandleFileAppend(StoreAppends)
    \/ AppendOnload(MaxQuestions)
    \/ DeleteQuestion(StoreIds)
    \/ QuestionTextInput({"abcx"})
    \/ DifficultySelectChange(StoreIds, {3})
    \/ SaveToCurrentFile
    \/ FindSimilarQuestions(StoreIds)

SpecSelection == Init /\ [][NextSelection]_vars

\* C21: a question selected for similarity is an object of the collection,
\* the one found there by its id.
C21_SelectedIsHeld ==
    selectedQuestionForSimilarity # NullObject
        => /\ "index" \in DOMAIN selectedQuestionForSimilarity
           /\ selectedQuestionForSimilarity.index =
                  FirstWithId(
                      questions,
                      questions[selectedQuestionForSimilarity.index].id)

====
